---- MODULE Spec2Model ----
(***************************************************************************)
(* Model of the mail dashboard's local store (storage/sqlite_manager.py), *)
(* its annotation producers (ai_analysis/ai_analyzer.py,                   *)
(* ai_analysis/email_summarizer.py, ai_analysis/email_reply.py) and its   *)
(* ingestion pipeline (email_processing/fetch_emails.py, ui/dashboard.py). *)
(*                                                                         *)
(* Tables are sets of rows; every row carries its AUTOINCREMENT id, so a   *)
(* duplicate row is a second element of the set and the UNIQUE constraints *)
(* are properties of the statements that write the tables, not of the      *)
(* representation.                                                         *)
(*                                                                         *)
(* Environment assumptions: SELECT statements succeed; the write failures  *)
(* modelled are the ones the code has a handler for (upsert_email raising  *)
(* inside _process_email, the INSERT of _store_analysis / _store_summary). *)
(***************************************************************************)
EXTENDS Integers, Sequences, FiniteSets, TLC

\* ------------------------------------------------------------------ bounds
\* Highest AUTOINCREMENT id a table hands out (inserts are disabled beyond).
MaxLocalId == 2
\* Number of store-level operations in one behaviour of Spec.
MaxOps == 4
\* Number of ingestion calls (fetch_all_emails, fetch_from_gmail) in one
\* behaviour of SpecFetch.
MaxRuns == 3
\* The max_emails budget a full sync may be started with (besides None).
Budget == 2
\* Longest label list given to map_labels_to_category on its own.
MaxLabels == 2
\* Number of calls the two callers make, together, in a behaviour of
\* SpecOverlap.
MaxCalls == 3

\* ------------------------------------------------------------- conventions
\* Python None / SQL NULL / an absent dict key, for text values.
NONE == "None"
\* None for an Optional[int] argument.
NoInt == -1

VARIABLES
    emails,           \* table emails
    attachments,      \* table attachments
    email_analysis,   \* table email_analysis
    email_summaries,  \* table email_summaries
    email_replies,    \* table email_replies
    sync_metadata,    \* table sync_metadata (key, value)
    seq,              \* sqlite_sequence: last AUTOINCREMENT id per table
    last,             \* what the last completed store-level call did and returned
    ops,              \* number of store-level calls made so far
    pc,               \* where each ingestion caller stands
    loc,              \* each ingestion caller's local variables
    obs,              \* per caller: what the current page / run has done so far
    resume,           \* page after which the last full sync was interrupted (0: none)
    clock,            \* time.time(), in whole seconds
    runs,             \* number of ingestion calls started so far
    conn              \* the SQLiteManager class: _instance, _lock, and the rows
                      \* waiting in the instance's one cursor (followed where
                      \* callers overlap; a caller on its own reads its own rows)

store == <<emails, attachments, email_analysis, email_summaries, email_replies,
           sync_metadata, seq>>

\* --------------------------------------------------------------- utilities
Max(a, b) == IF a >= b THEN a ELSE b
Min(a, b) == IF a <= b THEN a ELSE b

\* s[:n] of a Python list
Take(s, n) == SubSeq(s, 1, Min(Len(s), n))

\* json.dumps / json.loads of a list, as the TEXT column holds it
json_dumps(list) == [json |-> list]
json_loads(text) == text.json

\* str.lower() on the sentiment strings the model can return
lower(s) ==
    CASE s = "Urgent" -> "urgent"
      [] s = "POSITIVE" -> "positive"
      [] OTHER -> s

\* len() of the attachment blobs used as inputs
blob_len(content) ==
    CASE content = "x" -> 1
      [] content = "yy" -> 2
      [] OTHER -> 0

\* ===================================================== storage/sqlite_manager
\* Mutant of map_labels_to_category: IMPORTANT is tested first.
map_labels_to_category_important_first(labels) ==
    LET set == {labels[i] : i \in 1..Len(labels)} IN
    IF "IMPORTANT" \in set THEN "Important"
    ELSE IF "INBOX" \in set THEN "Inbox"
    ELSE IF "SENT" \in set THEN "Sent"
    ELSE IF "DRAFT" \in set THEN "Drafts"
    ELSE IF "CATEGORY_PROMOTIONS" \in set THEN "Promotions"
    ELSE "Other"

\* Gmail label list -> category, first match in a fixed order.
map_labels_to_category(labels) ==
    LET set == {labels[i] : i \in 1..Len(labels)} IN
    IF "INBOX" \in set THEN "Inbox"
    ELSE IF "SENT" \in set THEN "Sent"
    ELSE IF "DRAFT" \in set THEN "Drafts"
    ELSE IF "CATEGORY_PROMOTIONS" \in set THEN "Promotions"
    ELSE IF "IMPORTANT" \in set THEN "Important"
    ELSE "Other"

\* `labels or []` of map_labels_to_category line 417, on an argument that is
\* None ([none |-> TRUE]) or a list ([none |-> FALSE, list |-> ...]).
labels_or_empty(arg) == IF arg.none THEN <<>> ELSE arg.list

\* A call of map_labels_to_category on its own: a pure function, the store is
\* not touched.
categorize(arg) ==
    /\ ops < MaxOps
    /\ ops' = ops + 1
    /\ last' = [op |-> "map_labels_to_category", email_id |-> 0, key |-> NONE,
                hit |-> FALSE, model_calls |-> 0, wrote |-> FALSE, stored |-> FALSE,
                ret |-> [kind |-> "category", arg |-> arg,
                         category |-> map_labels_to_category(labels_or_empty(arg))]]
    /\ UNCHANGED store

\* upsert_email line 165: the value bound to the is_read column.
is_read_val(is_read) == IF is_read # NoInt /\ is_read = 1 THEN 1 ELSE 0

\* Mutant of upsert_email_rows: a plain INSERT into a table whose gmail_id column
\* is not UNIQUE.
upsert_email_rows_plain_insert(E, n, gmail_id, labels, category, body, is_read, now) ==
    E \cup {[id |-> n + 1, gmail_id |-> gmail_id, labels |-> labels,
             category |-> category, body |-> body, is_read |-> is_read_val(is_read),
             ai_analyzed |-> FALSE, ai_summarized |-> FALSE, created_at |-> now]}

\* Mutant of upsert_email_rows: INSERT OR REPLACE, which deletes the conflicting
\* row and inserts a fresh one.
upsert_email_rows_or_replace(E, n, gmail_id, labels, category, body, is_read, now) ==
    {r \in E : r.gmail_id # gmail_id} \cup
    {[id |-> n + 1, gmail_id |-> gmail_id, labels |-> labels,
      category |-> category, body |-> body, is_read |-> is_read_val(is_read),
      ai_analyzed |-> FALSE, ai_summarized |-> FALSE, created_at |-> now]}

\* The emails table after the INSERT ... ON CONFLICT(gmail_id) DO UPDATE of
\* upsert_email, run on table E with sqlite_sequence value n.  `body` stands
\* for the columns the statement copies verbatim from its arguments
\* (thread_id, history_id, sender, to_recipients, subject, date, snippet, body);
\* `now` is CURRENT_TIMESTAMP, the default of created_at on the INSERT branch.
upsert_email_rows(E, n, gmail_id, labels, category, body, is_read, now) ==
    IF \E r \in E : r.gmail_id = gmail_id
    THEN { IF r.gmail_id = gmail_id
           THEN [r EXCEPT !.labels = labels,
                          !.category = IF category = "" THEN "Other" ELSE category,
                          !.body = body,
                          !.is_read = is_read_val(is_read)]
           ELSE r : r \in E }
    ELSE E \cup {[id |-> n + 1,
                  gmail_id |-> gmail_id,
                  labels |-> labels,
                  category |-> IF category = "" THEN "Other" ELSE category,
                  body |-> body,
                  is_read |-> is_read_val(is_read),
                  ai_analyzed |-> FALSE,
                  ai_summarized |-> FALSE,
                  created_at |-> now]}

\* sqlite_sequence for emails after that statement.
upsert_email_seq(E, n, gmail_id) ==
    IF \E r \in E : r.gmail_id = gmail_id THEN n ELSE n + 1

\* upsert_email's return value: SELECT id FROM emails WHERE gmail_id = ?
upsert_email_id(E, gmail_id) ==
    (CHOOSE r \in E : r.gmail_id = gmail_id).id

\* insert_attachment line 219: the size bound to the size column.
attachment_size(content, size) ==
    IF size # NoInt THEN size ELSE IF content # NONE THEN blob_len(content) ELSE 0

\* Mutant of insert_attachment_rows: content = excluded.content, without the
\* COALESCE.
insert_attachment_rows_overwrite(A, n, email_id, filename, content, content_preview, size) ==
    LET fn == IF filename = "" THEN "unknown" ELSE filename
        sz == attachment_size(content, size)
        pv == IF content_preview = NONE THEN "" ELSE content_preview
        hit(r) == r.email_id = email_id /\ r.filename = fn /\ r.size = sz
    IN  IF \E r \in A : hit(r)
        THEN { IF hit(r)
               THEN [r EXCEPT !.content_preview = pv, !.content = content]
               ELSE r : r \in A }
        ELSE A \cup {[id |-> n + 1, email_id |-> email_id, filename |-> fn,
                      size |-> sz, content_preview |-> pv, content |-> content]}

\* The attachments table after the INSERT ... ON CONFLICT(email_id, filename,
\* size) DO UPDATE of insert_attachment, run on table A.
insert_attachment_rows(A, n, email_id, filename, content, content_preview, size) ==
    LET fn == IF filename = "" THEN "unknown" ELSE filename
        sz == attachment_size(content, size)
        pv == IF content_preview = NONE THEN "" ELSE content_preview
        hit(r) == r.email_id = email_id /\ r.filename = fn /\ r.size = sz
    IN  IF \E r \in A : hit(r)
        THEN { IF hit(r)
               THEN [r EXCEPT !.content_preview = pv,
                              !.content = IF content # NONE THEN content ELSE @]
               ELSE r : r \in A }
        ELSE A \cup {[id |-> n + 1, email_id |-> email_id, filename |-> fn,
                      size |-> sz, content_preview |-> pv, content |-> content]}

insert_attachment_seq(A, n, email_id, filename, content, size) ==
    LET fn == IF filename = "" THEN "unknown" ELSE filename
        sz == attachment_size(content, size)
    IN  IF \E r \in A : r.email_id = email_id /\ r.filename = fn /\ r.size = sz
        THEN n ELSE n + 1

\* Mutant of cascade: foreign keys are not enforced on the connection.
cascade_off(T, email_id) == T

\* ON DELETE CASCADE of the four child tables (PRAGMA foreign_keys = ON).
cascade(T, email_id) == {r \in T : r.email_id # email_id}

\* What a finished call leaves in `last`.
\* hit: the call found the row of its key (the ON CONFLICT branch of an upsert,
\* the already-annotated branch of a producer); model_calls: llm.invoke calls
\* made; wrote: a write statement was run; stored: the annotation row was written.
Ret(op, email_id, key, hit, model_calls, wrote, stored, ret) ==
    [op |-> op, email_id |-> email_id, key |-> key, hit |-> hit,
     model_calls |-> model_calls, wrote |-> wrote, stored |-> stored, ret |-> ret]

NoRet == [kind |-> "none"]
IdRet(id) == [kind |-> "id", id |-> id]

upsert_email(gmail_id, labels, category, body, is_read) ==
    /\ ops < MaxOps
    /\ (\E r \in emails : r.gmail_id = gmail_id) \/ seq.emails < MaxLocalId
    /\ emails' = upsert_email_rows(emails, seq.emails, gmail_id, labels, category,
                                   body, is_read, clock)
    /\ seq' = [seq EXCEPT !.emails = upsert_email_seq(emails, @, gmail_id)]
    /\ last' = Ret("upsert_email", upsert_email_id(emails', gmail_id), gmail_id,
                   \E r \in emails : r.gmail_id = gmail_id, 0, TRUE, FALSE,
                   IdRet(upsert_email_id(emails', gmail_id)))
    /\ ops' = ops + 1
    /\ UNCHANGED <<attachments, email_analysis, email_summaries, email_replies,
                   sync_metadata>>

\* insert_attachment; a foreign-key violation (no such email) raises inside the
\* try and the call returns None with nothing written.
insert_attachment(email_id, filename, content, content_preview, size) ==
    /\ ops < MaxOps
    /\ IF \E e \in emails : e.id = email_id
       THEN /\ \/ seq.attachments < MaxLocalId
               \/ insert_attachment_seq(attachments, seq.attachments, email_id,
                                        filename, content, size) = seq.attachments
            /\ attachments' = insert_attachment_rows(attachments, seq.attachments,
                                  email_id, filename, content, content_preview, size)
            /\ seq' = [seq EXCEPT !.attachments =
                          insert_attachment_seq(attachments, @, email_id, filename,
                                                content, size)]
            /\ last' = Ret("insert_attachment", email_id, filename,
                           insert_attachment_seq(attachments, seq.attachments, email_id,
                                                 filename, content, size) = seq.attachments,
                           0, TRUE, FALSE,
                           IdRet((CHOOSE r \in attachments' :
                                    /\ r.email_id = email_id
                                    /\ r.filename = (IF filename = "" THEN "unknown"
                                                     ELSE filename)
                                    /\ r.size = attachment_size(content, size)).id))
       ELSE /\ UNCHANGED <<attachments, seq>>
            /\ last' = Ret("insert_attachment", email_id, filename, FALSE, 0, FALSE,
                           FALSE, NoRet)
    /\ ops' = ops + 1
    /\ UNCHANGED <<emails, email_analysis, email_summaries, email_replies,
                   sync_metadata>>

mark_email_as_read(email_id, read) ==
    /\ ops < MaxOps
    /\ emails' = { IF r.id = email_id
                   THEN [r EXCEPT !.is_read = IF read THEN 1 ELSE 0]
                   ELSE r : r \in emails }
    /\ last' = Ret("mark_email_as_read", email_id, NONE, FALSE, 0, TRUE, FALSE, NoRet)
    /\ ops' = ops + 1
    /\ UNCHANGED <<attachments, email_analysis, email_summaries, email_replies,
                   sync_metadata, seq>>

delete_email(email_id) ==
    /\ ops < MaxOps
    /\ emails' = {r \in emails : r.id # email_id}
    /\ attachments' = cascade(attachments, email_id)
    /\ email_analysis' = cascade(email_analysis, email_id)
    /\ email_summaries' = cascade(email_summaries, email_id)
    /\ email_replies' = {r \in email_replies : r.original_email_id # email_id}
    /\ last' = Ret("delete_email", email_id, NONE, FALSE, 0, TRUE, FALSE, NoRet)
    /\ ops' = ops + 1
    /\ UNCHANGED <<sync_metadata, seq>>

\* ==================================================== ai_analysis/ai_analyzer
\* dict.get(key, default) on the parsed model response
get(d, key, default) == IF key \in DOMAIN d THEN d[key] ELSE default

valid_sentiments == {"positive", "negative", "neutral", "urgent"}

\* Mutant of _validate_analysis_results: the values are taken as they come.
_validate_analysis_results_unclamped(results) ==
    [priority_score |-> get(results, "priority_score", 3),
     sentiment |-> lower(get(results, "sentiment", "neutral")),
     action_required |-> get(results, "action_required", FALSE),
     suggested_actions |-> get(results, "suggested_actions", <<>>),
     key_topics |-> get(results, "key_topics", <<>>)]

_validate_analysis_results(results) ==
    LET sentiment == lower(get(results, "sentiment", "neutral")) IN
    [priority_score |-> Max(1, Min(5, get(results, "priority_score", 3))),
     sentiment |-> IF sentiment \in valid_sentiments THEN sentiment ELSE "neutral",
     action_required |-> get(results, "action_required", FALSE),
     suggested_actions |-> Take(get(results, "suggested_actions", <<>>), 5),
     key_topics |-> Take(get(results, "key_topics", <<>>), 10)]

\* Mutant of _get_fallback_analysis: another payload.
_get_fallback_analysis_low ==
    [priority_score |-> 1,
     sentiment |-> "negative",
     action_required |-> FALSE,
     suggested_actions |-> <<>>,
     key_topics |-> <<>>]

_get_fallback_analysis ==
    [priority_score |-> 3,
     sentiment |-> "neutral",
     action_required |-> TRUE,
     suggested_actions |-> <<"Review email manually">>,
     key_topics |-> <<"Unknown">>]

\* _run_ai_analysis on what llm.invoke did: returned JSON text ("json", with the
\* parsed dict), returned other text ("not_json"), or raised ("raise").
_run_ai_analysis(response) ==
    IF response.kind = "json"
    THEN _validate_analysis_results(response.results)
    ELSE _get_fallback_analysis

\* The EmailAnalysis object built at lines 129-142.
EmailAnalysis(email_id, gmail_id, r) ==
    [kind |-> "analysis", email_id |-> email_id, gmail_id |-> gmail_id,
     priority_score |-> r.priority_score, sentiment |-> r.sentiment,
     action_required |-> r.action_required,
     suggested_actions |-> r.suggested_actions, key_topics |-> r.key_topics]

\* email_analysis after the INSERT OR REPLACE of _store_analysis: a row with the
\* same email_id is deleted, the new row gets a fresh id.
_store_analysis(T, n, analysis) ==
    {r \in T : r.email_id # analysis.email_id} \cup
    {[id |-> n + 1, email_id |-> analysis.email_id, gmail_id |-> analysis.gmail_id,
      priority_score |-> analysis.priority_score, sentiment |-> analysis.sentiment,
      action_required |-> IF analysis.action_required THEN 1 ELSE 0,
      suggested_actions |-> json_dumps(analysis.suggested_actions),
      key_topics |-> json_dumps(analysis.key_topics)]}

\* Mutant of _is_already_analyzed: the lookup never finds the row.
_is_already_analyzed_never(email_id) == FALSE

_is_already_analyzed(email_id) == \E r \in email_analysis : r.email_id = email_id

_get_existing_analysis(email_id) ==
    IF \E r \in email_analysis : r.email_id = email_id
    THEN LET row == CHOOSE r \in email_analysis : r.email_id = email_id IN
         [kind |-> "analysis", email_id |-> row.email_id, gmail_id |-> row.gmail_id,
          priority_score |-> row.priority_score, sentiment |-> row.sentiment,
          action_required |-> (row.action_required # 0),
          suggested_actions |-> json_loads(row.suggested_actions),
          key_topics |-> json_loads(row.key_topics)]
    ELSE NoRet

_mark_email_analyzed(E, email_id) ==
    { IF r.id = email_id THEN [r EXCEPT !.ai_analyzed = TRUE] ELSE r : r \in E }

\* analyze_email(email_data) with the model answering `response`; store_ok is
\* whether the INSERT of _store_analysis goes through (its failure is logged
\* and swallowed at lines 342-343).
analyze_email(email_data, response, store_ok) ==
    LET email_id == email_data.id IN
    /\ ops < MaxOps
    /\ ops' = ops + 1
    /\ IF _is_already_analyzed(email_id)
       THEN /\ last' = Ret("analyze_email", email_id, NONE, TRUE, 0, FALSE, FALSE,
                           _get_existing_analysis(email_id))
            /\ UNCHANGED store
       ELSE LET analysis == EmailAnalysis(email_id, email_data.gmail_id,
                                          _run_ai_analysis(response))
                stored == store_ok /\ \E e \in emails : e.id = email_id
            IN  /\ stored => seq.email_analysis < MaxLocalId
                /\ email_analysis' =
                      IF stored
                      THEN _store_analysis(email_analysis, seq.email_analysis, analysis)
                      ELSE email_analysis
                /\ seq' = IF stored THEN [seq EXCEPT !.email_analysis = @ + 1] ELSE seq
                /\ emails' = _mark_email_analyzed(emails, email_id)
                /\ last' = Ret("analyze_email", email_id, NONE, FALSE, 1, TRUE, stored,
                               analysis)
                /\ UNCHANGED <<attachments, email_summaries, email_replies,
                               sync_metadata>>

\* analyze_email as a function of the tables, for the loop of
\* batch_analyze_emails.  o.kind = "none": the call raised outside
\* _run_ai_analysis (lines 109-117) and the handler at lines 153-155 returned
\* None with nothing written; o.kind = "call": it ran with the model answering
\* o.response and the INSERT going through or not (o.store_ok).
analyze_one(db, email_data, o) ==
    LET email_id == email_data.id
        has_row == \E r \in db.email_analysis : r.email_id = email_id
    IN  IF o.kind = "none"
        THEN [db |-> db, ret |-> NoRet, model_calls |-> 0]
        ELSE IF has_row
        THEN LET row == CHOOSE r \in db.email_analysis : r.email_id = email_id IN
             [db |-> db,
              ret |-> [kind |-> "analysis", email_id |-> row.email_id,
                       gmail_id |-> row.gmail_id,
                       priority_score |-> row.priority_score,
                       sentiment |-> row.sentiment,
                       action_required |-> (row.action_required # 0),
                       suggested_actions |-> json_loads(row.suggested_actions),
                       key_topics |-> json_loads(row.key_topics)],
              model_calls |-> 0]
        ELSE LET analysis == EmailAnalysis(email_id, email_data.gmail_id,
                                           _run_ai_analysis(o.response))
                 stored == o.store_ok /\ \E e \in db.emails : e.id = email_id
             IN  [db |-> [emails |-> _mark_email_analyzed(db.emails, email_id),
                          email_analysis |->
                              IF stored
                              THEN _store_analysis(db.email_analysis, db.n, analysis)
                              ELSE db.email_analysis,
                          n |-> IF stored THEN db.n + 1 ELSE db.n],
                  ret |-> analysis,
                  model_calls |-> 1]

\* Mutant of _get_unanalyzed_emails: the flag is not looked at.
_get_unanalyzed_emails_any(E, limit) ==
    {sel \in UNION {[1..k -> E] : k \in 0..Cardinality(E)} :
        /\ Len(sel) = Min(limit, Cardinality(E))
        /\ \A i, j \in 1..Len(sel) : i # j => sel[i] # sel[j]}

\* _get_unanalyzed_emails: SELECT * FROM emails WHERE ai_analyzed IS NOT TRUE
\* ORDER BY date DESC LIMIT ?; the lists it can return, the dates being any.
_get_unanalyzed_emails(E, limit) ==
    LET U == {r \in E : ~r.ai_analyzed} IN
    {sel \in UNION {[1..k -> U] : k \in 0..Cardinality(U)} :
        /\ Len(sel) = Min(limit, Cardinality(U))
        /\ \A i, j \in 1..Len(sel) : i # j => sel[i] # sel[j]}

\* The loop of batch_analyze_emails lines 404-412 over the selected rows.
RECURSIVE batch_loop(_, _, _, _, _)
batch_loop(db, items, outcomes, results, calls) ==
    IF items = <<>> THEN [db |-> db, results |-> results, calls |-> calls]
    ELSE LET a == analyze_one(db, Head(items), Head(outcomes)) IN
         batch_loop(a.db, Tail(items), Tail(outcomes),
                    IF a.ret # NoRet THEN Append(results, a.ret) ELSE results,
                    calls + a.model_calls)

\* batch_analyze_emails(limit); outcomes[i] is what happens in the i-th
\* single-item call.
batch_analyze_emails(limit, unanalyzed_emails, outcomes) ==
    /\ ops < MaxOps
    /\ ops' = ops + 1
    /\ unanalyzed_emails \in _get_unanalyzed_emails(emails, limit)
    /\ Len(outcomes) = Len(unanalyzed_emails)
    /\ LET b == batch_loop([emails |-> emails, email_analysis |-> email_analysis,
                            n |-> seq.email_analysis],
                           unanalyzed_emails, outcomes, <<>>, 0)
       IN  /\ b.db.n <= MaxLocalId
           /\ emails' = b.db.emails
           /\ email_analysis' = b.db.email_analysis
           /\ seq' = [seq EXCEPT !.email_analysis = b.db.n]
           /\ last' = [op |-> "batch_analyze_emails", email_id |-> 0, key |-> NONE,
                       hit |-> FALSE, model_calls |-> b.calls,
                       wrote |-> (unanalyzed_emails # <<>>), stored |-> FALSE,
                       ret |-> [kind |-> "list", limit |-> limit,
                                selected |-> [i \in 1..Len(unanalyzed_emails) |->
                                                 unanalyzed_emails[i].id],
                                produced |-> [i \in 1..Len(outcomes) |->
                                                 outcomes[i].kind # "none"],
                                results |-> b.results]]
    /\ UNCHANGED <<attachments, email_summaries, email_replies, sync_metadata>>

\* ================================================ ai_analysis/email_summarizer
_validate_summary_results(results) ==
    [brief_summary |-> get(results, "brief_summary", "Summary not available"),
     key_points |-> Take(get(results, "key_points", <<>>), 10),
     action_items |-> Take(get(results, "action_items", <<>>), 10)]

_get_fallback_summary(email_data) ==
    [brief_summary |-> "Email from sender about subject",
     key_points |-> <<"AI summarization temporarily unavailable">>,
     action_items |-> <<"Review email manually">>]

\* _generate_summary: one llm.invoke; a raise or an unparsable answer gives the
\* fallback.
_generate_summary(email_data, response) ==
    IF response.kind = "json"
    THEN _validate_summary_results(response.results)
    ELSE _get_fallback_summary(email_data)

EmailSummary(email_id, gmail_id, summary_type, r) ==
    [kind |-> "summary", email_id |-> email_id, gmail_id |-> gmail_id,
     summary_type |-> summary_type, brief_summary |-> r.brief_summary,
     key_points |-> r.key_points, action_items |-> r.action_items]

\* email_summaries after the INSERT OR REPLACE of _store_summary.
_store_summary(T, n, summary) ==
    {r \in T : ~(r.email_id = summary.email_id /\ r.summary_type = summary.summary_type)}
    \cup
    {[id |-> n + 1, email_id |-> summary.email_id, gmail_id |-> summary.gmail_id,
      summary_type |-> summary.summary_type, brief_summary |-> summary.brief_summary,
      key_points |-> json_dumps(summary.key_points),
      action_items |-> json_dumps(summary.action_items)]}

\* Mutant of _is_already_summarized: the lookup leaves out summary_type.
_is_already_summarized_any_type(email_id, summary_type) ==
    \E r \in email_summaries : r.email_id = email_id

_is_already_summarized(email_id, summary_type) ==
    \E r \in email_summaries : r.email_id = email_id /\ r.summary_type = summary_type

_get_existing_summary(email_id, summary_type) ==
    IF \E r \in email_summaries : r.email_id = email_id /\ r.summary_type = summary_type
    THEN LET row == CHOOSE r \in email_summaries :
                        r.email_id = email_id /\ r.summary_type = summary_type IN
         [kind |-> "summary", email_id |-> row.email_id, gmail_id |-> row.gmail_id,
          summary_type |-> row.summary_type, brief_summary |-> row.brief_summary,
          key_points |-> json_loads(row.key_points),
          action_items |-> json_loads(row.action_items)]
    ELSE NoRet

_mark_email_summarized(E, email_id) ==
    { IF r.id = email_id THEN [r EXCEPT !.ai_summarized = TRUE] ELSE r : r \in E }

summarize_email(email_data, summary_type, response, store_ok) ==
    LET email_id == email_data.id IN
    /\ ops < MaxOps
    /\ ops' = ops + 1
    /\ IF _is_already_summarized(email_id, summary_type)
       THEN /\ last' = Ret("summarize_email", email_id, summary_type, TRUE, 0, FALSE,
                           FALSE, _get_existing_summary(email_id, summary_type))
            /\ UNCHANGED store
       ELSE LET summary == EmailSummary(email_id, email_data.gmail_id, summary_type,
                                        _generate_summary(email_data, response))
                stored == store_ok /\ \E e \in emails : e.id = email_id
            IN  /\ stored => seq.email_summaries < MaxLocalId
                /\ email_summaries' =
                      IF stored
                      THEN _store_summary(email_summaries, seq.email_summaries, summary)
                      ELSE email_summaries
                /\ seq' = IF stored THEN [seq EXCEPT !.email_summaries = @ + 1] ELSE seq
                /\ emails' = _mark_email_summarized(emails, email_id)
                /\ last' = Ret("summarize_email", email_id, summary_type, FALSE, 1, TRUE,
                               stored, summary)
                /\ UNCHANGED <<attachments, email_analysis, email_replies,
                               sync_metadata>>

\* summarize_email as a function of the tables, for the loop of
\* batch_summarize_emails; the model answers o.response and the INSERT of
\* _store_summary goes through or not (o.store_ok).
summarize_one(db, email_data, summary_type, o) ==
    LET email_id == email_data.id
        has_row == \E r \in db.email_summaries :
                       r.email_id = email_id /\ r.summary_type = summary_type
    IN  IF has_row
        THEN LET row == CHOOSE r \in db.email_summaries :
                            r.email_id = email_id /\ r.summary_type = summary_type IN
             [db |-> db,
              ret |-> [kind |-> "summary", email_id |-> row.email_id,
                       gmail_id |-> row.gmail_id, summary_type |-> row.summary_type,
                       brief_summary |-> row.brief_summary,
                       key_points |-> json_loads(row.key_points),
                       action_items |-> json_loads(row.action_items)],
              model_calls |-> 0]
        ELSE LET summary == EmailSummary(email_id, email_data.gmail_id, summary_type,
                                         _generate_summary(email_data, o.response))
                 stored == o.store_ok /\ \E e \in db.emails : e.id = email_id
             IN  [db |-> [emails |-> _mark_email_summarized(db.emails, email_id),
                          email_summaries |->
                              IF stored
                              THEN _store_summary(db.email_summaries, db.n, summary)
                              ELSE db.email_summaries,
                          n |-> IF stored THEN db.n + 1 ELSE db.n],
                  ret |-> summary,
                  model_calls |-> 1]

\* _get_unsummarized_emails: SELECT * FROM emails WHERE ai_summarized IS NOT
\* TRUE ORDER BY date DESC LIMIT ?; the lists it can return, the dates being any.
_get_unsummarized_emails(E, limit) ==
    LET U == {r \in E : ~r.ai_summarized} IN
    {sel \in UNION {[1..k -> U] : k \in 0..Cardinality(U)} :
        /\ Len(sel) = Min(limit, Cardinality(U))
        /\ \A i, j \in 1..Len(sel) : i # j => sel[i] # sel[j]}

\* The loop of batch_summarize_emails lines 595-603 over the selected rows.
RECURSIVE summary_loop(_, _, _, _, _, _)
summary_loop(db, items, summary_type, outcomes, results, calls) ==
    IF items = <<>> THEN [db |-> db, results |-> results, calls |-> calls]
    ELSE LET a == summarize_one(db, Head(items), summary_type, Head(outcomes)) IN
         summary_loop(a.db, Tail(items), summary_type, Tail(outcomes),
                      Append(results, a.ret), calls + a.model_calls)

\* batch_summarize_emails(limit, summary_type); outcomes[i] is what happens in
\* the i-th single-item call.
batch_summarize_emails(limit, summary_type, unsummarized_emails, outcomes) ==
    /\ ops < MaxOps
    /\ ops' = ops + 1
    /\ unsummarized_emails \in _get_unsummarized_emails(emails, limit)
    /\ Len(outcomes) = Len(unsummarized_emails)
    /\ LET b == summary_loop([emails |-> emails, email_summaries |-> email_summaries,
                              n |-> seq.email_summaries],
                             unsummarized_emails, summary_type, outcomes, <<>>, 0)
       IN  /\ b.db.n <= MaxLocalId
           /\ emails' = b.db.emails
           /\ email_summaries' = b.db.email_summaries
           /\ seq' = [seq EXCEPT !.email_summaries = b.db.n]
           /\ last' = [op |-> "batch_summarize_emails", email_id |-> 0,
                       key |-> summary_type, hit |-> FALSE, model_calls |-> b.calls,
                       wrote |-> (unsummarized_emails # <<>>), stored |-> FALSE,
                       ret |-> [kind |-> "list", limit |-> limit,
                                selected |-> [i \in 1..Len(unsummarized_emails) |->
                                                 unsummarized_emails[i].id],
                                results |-> b.results]]
    /\ UNCHANGED <<attachments, email_analysis, email_replies, sync_metadata>>

\* delete_summary(email_id, summary_type): the rows of one type, or of every
\* type when summary_type is None; the emails table is not touched.
delete_summary(email_id, summary_type) ==
    /\ ops < MaxOps
    /\ ops' = ops + 1
    /\ email_summaries' =
          {r \in email_summaries :
              ~(r.email_id = email_id /\ (summary_type = NONE \/ r.summary_type = summary_type))}
    /\ last' = Ret("delete_summary", email_id, summary_type,
                   email_summaries' # email_summaries, 0, TRUE, FALSE, NoRet)
    /\ UNCHANGED <<emails, attachments, email_analysis, email_replies,
                   sync_metadata, seq>>

\* ==================================================== ai_analysis/email_reply
\* Mutant of _store_reply_record: INSERT OR REPLACE on a table with
\* UNIQUE(original_email_id), as the analysis producer stores its rows.
_store_reply_record_or_replace(T, n, original_email_id, reply_type, status, now) ==
    {r \in T : r.original_email_id # original_email_id} \cup
    {[id |-> n + 1, original_email_id |-> original_email_id,
      reply_type |-> reply_type, sent_status |-> status,
      sent_timestamp |-> IF status = "sent" THEN now ELSE NoInt]}

\* email_replies after the plain INSERT of _store_reply_record; `now` is
\* datetime.now(), kept as sent_timestamp for a sent reply (None otherwise).
_store_reply_record(T, n, original_email_id, reply_type, status, now) ==
    T \cup {[id |-> n + 1, original_email_id |-> original_email_id,
             reply_type |-> reply_type, sent_status |-> status,
             sent_timestamp |-> IF status = "sent" THEN now ELSE NoInt]}

\* create_reply_draft (status "draft") and send_reply (status "sent"); gmail_ok
\* is whether the provider call (drafts().create / messages().send) succeeded.
\* send_reply also marks the original email as read.
reply(email_data, status, gmail_ok) ==
    /\ ops < MaxOps
    /\ ops' = ops + 1
    /\ IF gmail_ok
       THEN /\ seq.email_replies < MaxLocalId
            /\ email_replies' = _store_reply_record(email_replies, seq.email_replies,
                                                    email_data.id, "ai_generated", status,
                                                    clock)
            /\ seq' = [seq EXCEPT !.email_replies = @ + 1]
            /\ emails' = IF status = "sent"
                         THEN { IF r.id = email_data.id THEN [r EXCEPT !.is_read = 1]
                                ELSE r : r \in emails }
                         ELSE emails
            /\ last' = Ret(IF status = "sent" THEN "send_reply" ELSE "create_reply_draft",
                           email_data.id, status, FALSE, 0, TRUE, TRUE,
                           IdRet(seq.email_replies + 1))
       ELSE /\ UNCHANGED <<email_replies, seq, emails>>
            /\ last' = Ret(IF status = "sent" THEN "send_reply" ELSE "create_reply_draft",
                           email_data.id, status, FALSE, 0, FALSE, FALSE, NoRet)
    /\ UNCHANGED <<attachments, email_analysis, email_summaries, sync_metadata>>

\* delete_reply(reply_id): DELETE FROM email_replies WHERE id = ?; returns
\* whether a row was deleted.
delete_reply(reply_id) ==
    /\ ops < MaxOps
    /\ ops' = ops + 1
    /\ email_replies' = {r \in email_replies : r.id # reply_id}
    /\ last' = Ret("delete_reply", 0, reply_id, \E r \in email_replies : r.id = reply_id,
                   0, TRUE, FALSE, NoRet)
    /\ UNCHANGED <<emails, attachments, email_analysis, email_summaries,
                   sync_metadata, seq>>

\* update_reply_status(reply_id, new_status): UPDATE email_replies SET
\* sent_status = ?, sent_timestamp = ? WHERE id = ?.
update_reply_status(reply_id, new_status) ==
    /\ ops < MaxOps
    /\ ops' = ops + 1
    /\ email_replies' =
          { IF r.id = reply_id
            THEN [r EXCEPT !.sent_status = new_status,
                           !.sent_timestamp = IF new_status = "sent" THEN clock
                                              ELSE NoInt]
            ELSE r : r \in email_replies }
    /\ last' = Ret("update_reply_status", 0, reply_id,
                   \E r \in email_replies : r.id = reply_id, 0, TRUE, FALSE, NoRet)
    /\ UNCHANGED <<emails, attachments, email_analysis, email_summaries,
                   sync_metadata, seq>>

\* ============================================================= sync metadata
\* str(n) and int(s) for the non-negative integers the checkpoint holds
Dec == <<"0", "1", "2", "3", "4", "5", "6", "7", "8", "9", "10", "11", "12", "13",
         "14", "15", "16", "17", "18", "19", "20", "21", "22", "23", "24">>
str(n) == Dec[n + 1]
int(s) == CHOOSE n \in 0..(Len(Dec) - 1) : Dec[n + 1] = s

\* INSERT ... ON CONFLICT(key) DO UPDATE SET value = excluded.value
update_sync_metadata(M, key, value) ==
    IF \E r \in M : r.key = key
    THEN { IF r.key = key THEN [r EXCEPT !.value = value] ELSE r : r \in M }
    ELSE M \cup {[key |-> key, value |-> value]}

get_sync_metadata(M, key) ==
    IF \E r \in M : r.key = key THEN (CHOOSE r \in M : r.key = key).value ELSE NONE

\* ========================================================= the remote mailbox
\* The provider's listing: pages in order, each with the ids it lists and the
\* token of the page after it (NONE on the last page).
Mailbox ==
    << [messages |-> <<"g1", "g2">>, nextPageToken |-> "t2"],
       [messages |-> <<"g3">>,       nextPageToken |-> "t3"],
       [messages |-> <<"g4">>,       nextPageToken |-> NONE] >>

\* The page messages().list returns for a pageToken parameter (no parameter is
\* sent for None or an empty token: the start of the mailbox).
PageOf(page_token) ==
    IF page_token \in {NONE, ""} THEN 1
    ELSE 1 + (CHOOSE i \in 1..Len(Mailbox) : Mailbox[i].nextPageToken = page_token)

\* messages().get(format="full"): label ids, content, attachment parts.
FullMessage(gmail_id) ==
    CASE gmail_id = "g1" -> [labelIds |-> <<"INBOX", "UNREAD">>, body |-> "b1",
                             parts |-> <<[filename |-> "a.txt", data |-> "x"]>>]
      [] gmail_id = "g2" -> [labelIds |-> <<"IMPORTANT">>, body |-> "b2", parts |-> <<>>]
      [] gmail_id = "g3" -> [labelIds |-> <<"SENT">>, body |-> "b3", parts |-> <<>>]
      [] gmail_id = "g5" -> [labelIds |-> <<"INBOX">>, body |-> "b5",
                             parts |-> <<[filename |-> "a.txt", data |-> "x"],
                                         [filename |-> "b.txt", data |-> "yy"]>>]
      [] OTHER -> [labelIds |-> <<>>, body |-> "b4", parts |-> <<>>]

MsgsOf(page) == {Mailbox[page].messages[i] : i \in 1..Len(Mailbox[page].messages)}
MsgsUpTo(k) == UNION {MsgsOf(j) : j \in 1..k}

\* ================================================ email_processing/fetch_emails
Procs == {"sync", "ui"}

LocInit ==
    [page_token |-> NONE, messages |-> <<>>, idx |-> 1, existing_ids |-> {},
     emails |-> <<>>, next_token |-> NONE, total_processed |-> 0, batch_count |-> 0,
     max_emails |-> NoInt]

ObsInit ==
    [snap_emails |-> {}, snap_attachments |-> {}, listed |-> FALSE,
     list_failed |-> FALSE, token_before |-> NONE, fetched |-> {}, failed |-> {},
     run_fetched |-> {}, ckpt_page |-> 0, run_snap |-> {}, raised |-> FALSE]

Idle(p) == pc[p] \in {"idle", "killed"}

\* One attachment part of _extract_content_and_attachments: up to 3 calls of
\* attachments().get; `fails` of them raise before one succeeds.
attachment_of(part, fails) ==
    IF fails < 3
    THEN [filename |-> part.filename, size |-> blob_len(part.data),
          content |-> part.data, content_preview |-> part.data]
    ELSE [filename |-> part.filename, size |-> 0, content |-> NONE,
          content_preview |-> "Failed to fetch attachment content"]

\* _extract_content_and_attachments line 610.
max_retries == 3

\* Mutant of get_attachment: the loop has no break.
RECURSIVE get_attachment_no_break(_, _)
get_attachment_no_break(outcomes, retry) ==
    IF retry = max_retries - 1
    THEN [ok |-> outcomes[retry + 1], calls |-> retry + 1, sleeps |-> retry]
    ELSE get_attachment_no_break(outcomes, retry + 1)

\* The retry loop of lines 611-621 from turn `retry` on; outcomes[i] is
\* whether the i-th attachments().get call returns.  calls: provider calls
\* made; sleeps: time.sleep(1) calls made; ok: att_data was obtained.
RECURSIVE get_attachment(_, _)
get_attachment(outcomes, retry) ==
    IF outcomes[retry + 1]
    THEN [ok |-> TRUE, calls |-> retry + 1, sleeps |-> retry]
    ELSE IF retry = max_retries - 1
    THEN [ok |-> FALSE, calls |-> retry + 1, sleeps |-> retry]
    ELSE get_attachment(outcomes, retry + 1)

\* The loop of _process_email lines 545-555 over the attachment list, as the
\* pair (attachments table, sqlite_sequence).
RECURSIVE store_attachments(_, _, _, _)
store_attachments(A, n, email_id, atts) ==
    IF atts = <<>> THEN <<A, n>>
    ELSE LET a == Head(atts) IN
         store_attachments(
             insert_attachment_rows(A, n, email_id, a.filename, a.content,
                                    a.content_preview, a.size),
             insert_attachment_seq(A, n, email_id, a.filename, a.content, a.size),
             email_id, Tail(atts))

\* _process_email(gmail_id) on its own, the message fetched and decoded;
\* outcomes[i][k] is whether the k-th attachments().get call for part i returns.
_process_email(gmail_id, outcomes) ==
    LET full_msg == FullMessage(gmail_id)
        labels == full_msg.labelIds
        is_read == IF \E i \in 1..Len(labels) : labels[i] = "UNREAD" THEN 0 ELSE 1
        got == [i \in 1..Len(full_msg.parts) |-> get_attachment(outcomes[i], 0)]
        atts == [i \in 1..Len(full_msg.parts) |->
                    attachment_of(full_msg.parts[i],
                                  IF got[i].ok THEN got[i].calls - 1 ELSE max_retries)]
        E == upsert_email_rows(emails, seq.emails, gmail_id, labels,
                               map_labels_to_category(labels), full_msg.body, is_read,
                               clock)
        db_email_id == upsert_email_id(E, gmail_id)
        A == store_attachments(attachments, seq.attachments, db_email_id, atts)
    IN  /\ ops < MaxOps
        /\ ops' = ops + 1
        /\ (\E r \in emails : r.gmail_id = gmail_id) \/ seq.emails < MaxLocalId
        /\ emails' = E
        /\ attachments' = A[1]
        /\ seq' = [seq EXCEPT !.emails = upsert_email_seq(emails, @, gmail_id),
                              !.attachments = A[2]]
        /\ last' = Ret("_process_email", db_email_id, gmail_id,
                       \E r \in emails : r.gmail_id = gmail_id, 0, TRUE, FALSE,
                       [kind |-> "email", id |-> db_email_id, gmail_id |-> gmail_id,
                        outcomes |-> outcomes, got |-> got])
        /\ UNCHANGED <<email_analysis, email_summaries, email_replies, sync_metadata>>

\* Mutant of existing_ids_of: the query fails and the set stays empty.
existing_ids_of_nothing(E) == {}

\* fetch_email_batch lines 450-456: the gmail ids already stored, read once.
existing_ids_of(E) == {r.gmail_id : r \in E}

\* Mutant of page_emails: the `if email_data:` test is dropped.
page_emails_unchecked(result, email_data) == Append(result, email_data)

\* fetch_email_batch lines 467-470: only a message _process_email returned
\* joins the page's result (email_data is NoRet when it returned None).
page_emails(result, email_data) ==
    IF email_data # NoRet THEN Append(result, email_data) ELSE result

\* Mutant of start_token: the run ignores the stored cursor.
start_token_ignored(M) == NONE

\* fetch_all_emails line 683: the cursor the run starts from.
start_token(M) == get_sync_metadata(M, "last_page_token")

\* Mutant of end_of_mailbox: a page with nothing new does not end the run.
end_of_mailbox_token_only(next_token, current_batch_size) ==
    next_token = NONE

\* fetch_all_emails line 713 and 717: the two break conditions.
end_of_mailbox(next_token, current_batch_size) ==
    next_token = NONE \/ current_batch_size = 0

\* Mutant of budget_reached: the run goes on at exactly max_emails.
budget_exceeded(max_emails, total_processed) ==
    max_emails # NoInt /\ max_emails # 0 /\ total_processed > max_emails

budget_reached(max_emails, total_processed) ==
    max_emails # NoInt /\ max_emails # 0 /\ total_processed >= max_emails

\* `next_token or ""`
or_empty(token) == IF token = NONE THEN "" ELSE token

\* fetch_all_emails up to the loop: read the checkpoint, zero the counters.
fetch_all_emails_start(max_emails) ==
    /\ \A p \in Procs : Idle(p)
    /\ runs < MaxRuns
    /\ runs' = runs + 1
    /\ pc' = [pc EXCEPT !["sync"] = "list"]
    /\ loc' = [loc EXCEPT !["sync"] =
                  [LocInit EXCEPT !.page_token = start_token(sync_metadata),
                                  !.max_emails = max_emails]]
    /\ obs' = [obs EXCEPT !["sync"] = [ObsInit EXCEPT !.run_snap = emails]]
    /\ UNCHANGED <<store, last, ops, resume, clock, conn>>

\* dashboard fetch_from_gmail up to its fetch_email_batch call.
fetch_from_gmail_start ==
    /\ \A p \in Procs : Idle(p)
    /\ runs < MaxRuns
    /\ runs' = runs + 1
    /\ pc' = [pc EXCEPT !["ui"] = "list"]
    /\ loc' = [loc EXCEPT !["ui"] =
                  [LocInit EXCEPT !.page_token =
                      IF Cardinality(emails) = 0 THEN NONE
                      ELSE get_sync_metadata(sync_metadata, "last_page_token")]]
    /\ obs' = [obs EXCEPT !["ui"] = ObsInit]
    /\ resume' = 0
    /\ UNCHANGED <<store, last, ops, clock, conn>>

\* fetch_email_batch lines 426-456: the list call (list_ok: it did not raise),
\* the early return on an empty page, the read of the existing ids.
\* `page` is what messages().list answers.
fetch_email_batch_page(p, list_ok, page) ==
    /\ pc[p] = "list"
    /\ LET o == [obs[p] EXCEPT !.snap_emails = emails,
                               !.snap_attachments = attachments,
                               !.listed = TRUE,
                               !.list_failed = ~list_ok,
                               !.token_before =
                                   get_sync_metadata(sync_metadata, "last_page_token"),
                               !.fetched = {}, !.failed = {}]
           l == [loc[p] EXCEPT !.batch_count = @ + 1, !.idx = 1, !.emails = <<>>]
       IN  IF ~list_ok
           THEN /\ loc' = [loc EXCEPT ![p] = [l EXCEPT !.messages = <<>>,
                                                      !.existing_ids = {},
                                                      !.next_token = NONE]]
                /\ pc' = [pc EXCEPT ![p] = "ret"]
                /\ obs' = [obs EXCEPT ![p] = o]
           ELSE /\ loc' = [loc EXCEPT ![p] =
                              [l EXCEPT !.messages = page.messages,
                                        !.next_token = page.nextPageToken,
                                        !.existing_ids =
                                            IF page.messages = <<>> THEN {}
                                            ELSE existing_ids_of(emails)]]
                /\ pc' = [pc EXCEPT ![p] = IF page.messages = <<>> THEN "ret" ELSE "loop"]
                /\ obs' = [obs EXCEPT ![p] = o]
    /\ UNCHANGED <<store, last, ops, resume, clock, runs, conn>>

\* The list call answered from the mailbox's listing.
fetch_email_batch_list(p, list_ok) ==
    fetch_email_batch_page(p, list_ok, Mailbox[PageOf(loc[p].page_token)])

\* One turn of the loop of fetch_email_batch lines 458-478 with _process_email
\* inlined.  outcome: "ok", "get_failed" (messages().get or the decoding
\* raised), "store_failed" (db.upsert_email raised); att_fails: how many
\* attachments().get calls raise, per attachment part.
fetch_email_batch_message(p, outcome, att_fails) ==
    /\ pc[p] = "loop"
    /\ LET l == loc[p]
           gmail_id == l.messages[l.idx]
           full_msg == FullMessage(gmail_id)
           labels == full_msg.labelIds
           is_read == IF \E i \in 1..Len(labels) : labels[i] = "UNREAD" THEN 0 ELSE 1
           atts == [i \in 1..Len(full_msg.parts) |->
                       attachment_of(full_msg.parts[i], att_fails)]
           E == upsert_email_rows(emails, seq.emails, gmail_id, labels,
                                  map_labels_to_category(labels), full_msg.body, is_read,
                                  clock)
           db_email_id == upsert_email_id(E, gmail_id)
           A == store_attachments(attachments, seq.attachments, db_email_id, atts)
           done == [l EXCEPT !.idx = @ + 1]
           nextpc == IF l.idx + 1 > Len(l.messages) THEN "ret" ELSE "loop"
       IN  /\ pc' = [pc EXCEPT ![p] = nextpc]
           /\ IF gmail_id \in l.existing_ids
              THEN /\ loc' = [loc EXCEPT ![p] = done]
                   /\ UNCHANGED <<store, obs>>
              ELSE IF outcome = "ok"
              THEN /\ emails' = E
                   /\ attachments' = A[1]
                   /\ seq' = [seq EXCEPT
                                 !.emails = upsert_email_seq(emails, @, gmail_id),
                                 !.attachments = A[2]]
                   /\ loc' = [loc EXCEPT ![p] =
                                 [done EXCEPT !.emails =
                                     page_emails(@, [kind |-> "email",
                                                     id |-> db_email_id,
                                                     gmail_id |-> gmail_id])]]
                   /\ obs' = [obs EXCEPT ![p].fetched = @ \cup {gmail_id},
                                         ![p].run_fetched = @ \cup {gmail_id}]
                   /\ UNCHANGED <<email_analysis, email_summaries, email_replies,
                                  sync_metadata>>
              ELSE /\ loc' = [loc EXCEPT ![p] =
                                 [done EXCEPT !.emails = page_emails(@, NoRet)]]
                   /\ obs' = [obs EXCEPT ![p].fetched = @ \cup {gmail_id},
                                         ![p].run_fetched = @ \cup {gmail_id},
                                         ![p].failed = @ \cup {gmail_id}]
                   /\ UNCHANGED store
    /\ UNCHANGED <<last, ops, resume, clock, runs, conn>>

\* fetch_all_emails lines 697-724: the counters, the checkpoint, the two break
\* tests, the next turn; a break returns total_processed (lines 726-733).
fetch_all_emails_checkpoint ==
    /\ pc["sync"] = "ret"
    /\ LET l == loc["sync"]
           current_batch_size == Len(l.emails)
           total_processed == l.total_processed + current_batch_size
           stop == \/ end_of_mailbox(l.next_token, current_batch_size)
                   \/ budget_reached(l.max_emails, total_processed)
       IN  /\ sync_metadata' =
                  update_sync_metadata(
                      update_sync_metadata(sync_metadata, "last_page_token",
                                           or_empty(l.next_token)),
                      "last_sync_time", str(clock))
           /\ clock' = clock + 1
           /\ IF stop
              THEN /\ pc' = [pc EXCEPT !["sync"] = "idle"]
                   /\ loc' = [loc EXCEPT !["sync"] =
                                 [LocInit EXCEPT !.total_processed = total_processed]]
                   /\ obs' = [obs EXCEPT !["sync"] = ObsInit]
                   /\ resume' = 0
              ELSE /\ pc' = [pc EXCEPT !["sync"] = "list"]
                   /\ loc' = [loc EXCEPT !["sync"] =
                                 [l EXCEPT !.page_token = l.next_token,
                                           !.total_processed = total_processed,
                                           !.messages = <<>>, !.emails = <<>>,
                                           !.existing_ids = {}, !.idx = 1,
                                           !.next_token = NONE]]
                   /\ obs' = [obs EXCEPT !["sync"].ckpt_page = PageOf(l.page_token),
                                         !["sync"].listed = FALSE]
                   /\ UNCHANGED resume
    /\ UNCHANGED <<emails, attachments, email_analysis, email_summaries,
                   email_replies, seq, last, ops, runs, conn>>

\* Mutant of partial_total: the handler reports nothing processed.
partial_total_zero(total_processed, current_batch_size) == 0

\* fetch_all_emails lines 697-698 and 735-737: the count the except handler
\* returns when the turn raises after fetch_email_batch has returned.
partial_total(total_processed, current_batch_size) ==
    total_processed + current_batch_size

\* fetch_all_emails lines 696-702 and 735-737: a turn of the loop raises.
\* fetch_email_batch catches its own failures, so the statements that can
\* raise are the two checkpoint writes: line 701 (at = 701, nothing of this
\* page's checkpoint is written) or line 702 (at = 702, the cursor is
\* committed, the last-sync time is not).  The handler logs and returns
\* total_processed.
fetch_all_emails_raise(at) ==
    /\ pc["sync"] = "ret"
    /\ LET l == loc["sync"] IN
       /\ sync_metadata' =
              IF at = 701 THEN sync_metadata
              ELSE update_sync_metadata(sync_metadata, "last_page_token",
                                        or_empty(l.next_token))
       /\ loc' = [loc EXCEPT !["sync"] =
                     [LocInit EXCEPT !.total_processed =
                         partial_total(l.total_processed, Len(l.emails))]]
    /\ pc' = [pc EXCEPT !["sync"] = "idle"]
    /\ obs' = [obs EXCEPT !["sync"] = [ObsInit EXCEPT !.raised = TRUE]]
    /\ resume' = 0
    /\ UNCHANGED <<emails, attachments, email_analysis, email_summaries,
                   email_replies, seq, last, ops, clock, runs, conn>>

\* dashboard fetch_from_gmail lines 439-442: cursor and cumulative counter.
fetch_from_gmail_finish ==
    /\ pc["ui"] = "ret"
    /\ LET l == loc["ui"]
           M == update_sync_metadata(sync_metadata, "last_page_token",
                                     or_empty(l.next_token))
           total == get_sync_metadata(M, "total_emails_fetched")
           current_total == int(IF total = NONE THEN "0" ELSE total)
       IN  sync_metadata' = update_sync_metadata(M, "total_emails_fetched",
                                                 str(current_total + Len(l.emails)))
    /\ pc' = [pc EXCEPT !["ui"] = "idle"]
    /\ loc' = [loc EXCEPT !["ui"] = LocInit]
    /\ obs' = [obs EXCEPT !["ui"] = ObsInit]
    /\ UNCHANGED <<emails, attachments, email_analysis, email_summaries,
                   email_replies, seq, last, ops, resume, clock, runs, conn>>

\* The process running fetch_all_emails is stopped between two steps; its
\* local variables are lost, the store keeps what was committed.
Interrupt ==
    /\ pc["sync"] \in {"list", "loop", "ret"}
    /\ pc' = [pc EXCEPT !["sync"] = "killed"]
    /\ loc' = [loc EXCEPT !["sync"] = LocInit]
    /\ obs' = [obs EXCEPT !["sync"] = ObsInit]
    /\ resume' = IF obs["sync"].ckpt_page > 0 THEN obs["sync"].ckpt_page ELSE resume
    /\ UNCHANGED <<store, last, ops, clock, runs, conn>>

\* ========================================================= overlapping callers
\* Two callers (threads of the one process) use the one SQLiteManager at
\* overlapping times.  A step is one statement on the shared connection:
\* cursor.execute with the commit that follows it, cursor.fetchone /
\* fetchall, a provider or model call.  Every caller executes and fetches on
\* the instance's single cursor (self.cursor, db.cursor).

\* SQLiteManager before its first construction: no instance, the class lock
\* free, nothing in the cursor.
ConnInit == [instance |-> 0, created |-> 0, lock |-> NONE, cursor |-> <<>>]

\* cursor.execute of a SELECT: the cursor now holds that statement's rows;
\* of any other statement: it holds none.
execute(c, rows) == [c EXCEPT !.cursor = rows]

\* cursor.fetchone(): the next row of whatever the cursor holds, None at its end.
fetchone_row(c) == IF c.cursor = <<>> THEN NoRet ELSE Head(c.cursor)
fetchone_rest(c) == [c EXCEPT !.cursor = IF @ = <<>> THEN <<>> ELSE Tail(@)]

\* row["col"] of a sqlite3.Row: raises for None and for a row without the column.
has_col(row, col) == row # NoRet /\ col \in DOMAIN row

\* A table's rows in rowid order, as a SELECT returns them.
RECURSIVE rows_of(_)
rows_of(T) ==
    IF T = {} THEN <<>>
    ELSE LET r == CHOOSE x \in T : \A y \in T : x.id <= y.id
         IN  <<r>> \o rows_of(T \ {r})

\* A caller's local variables while it runs a call.
CallInit ==
    [op |-> "none", key |-> NONE, email_id |-> 0, gmail_id |-> NONE,
     messages |-> <<>>, idx |-> 1, existing_ids |-> {}, emails |-> <<>>,
     db_email_id |-> 0, atts |-> <<>>, seen |-> 0, analysis |-> NoRet,
     at_select |-> NONE]

\* What is kept of a caller across its calls: its SQLiteManager handle, the
\* calls it has started (name, email id, and the call the other caller was in
\* at that moment, in order) and the model calls it has made (the email ids,
\* in order).
SeenInit == [db |-> 0, invoked |-> <<>>, calls |-> <<>>]

\* SQLiteManager.__new__, line 28: `with cls._lock` is entered.
new_lock(p) ==
    /\ pc[p] = "idle"
    /\ obs[p].db = 0
    /\ conn.lock = NONE
    /\ conn' = [conn EXCEPT !.lock = p]
    /\ pc' = [pc EXCEPT ![p] = "new_check"]
    /\ loc' = [loc EXCEPT ![p] = [CallInit EXCEPT !.op = "SQLiteManager"]]
    /\ UNCHANGED <<store, last, ops, obs, resume, clock, runs>>

\* line 29: `if cls._instance is None`.
new_check(p) ==
    /\ pc[p] = "new_check"
    /\ loc' = [loc EXCEPT ![p].seen = conn.instance]
    /\ pc' = [pc EXCEPT ![p] = "new_create"]
    /\ UNCHANGED <<store, last, ops, obs, resume, clock, runs, conn>>

\* lines 30-35: the instance and its connection are made when none was seen.
new_create(p) ==
    /\ pc[p] = "new_create"
    /\ conn' = IF loc[p].seen = 0
               THEN [conn EXCEPT !.created = @ + 1, !.instance = conn.created + 1,
                                 !.cursor = <<>>]
               ELSE conn
    /\ pc' = [pc EXCEPT ![p] = "new_return"]
    /\ UNCHANGED <<store, last, ops, loc, obs, resume, clock, runs>>

\* line 36: `return cls._instance`, leaving the with block.
new_return(p) ==
    /\ pc[p] = "new_return"
    /\ obs' = [obs EXCEPT ![p].db = conn.instance]
    /\ conn' = [conn EXCEPT !.lock = NONE]
    /\ pc' = [pc EXCEPT ![p] = "idle"]
    /\ loc' = [loc EXCEPT ![p] = CallInit]
    /\ UNCHANGED <<store, last, ops, resume, clock, runs>>

\* The other of the two callers.
Other(p) == CHOOSE q \in Procs : q # p

\* A caller that holds the handle and runs no call may start one.
CanCall(p) ==
    /\ pc[p] = "idle"
    /\ obs[p].db # 0
    /\ ops < MaxCalls

\* fetch_email_batch lines 426-453 on the first page of the mailbox: the list
\* call and the execute of SELECT DISTINCT gmail_id FROM emails.
batch_start(p) ==
    /\ CanCall(p)
    /\ ops' = ops + 1
    /\ loc' = [loc EXCEPT ![p] = [CallInit EXCEPT !.op = "fetch_email_batch",
                                                 !.messages = Mailbox[1].messages]]
    /\ conn' = execute(conn, [i \in 1..Len(rows_of(emails)) |->
                                 [gmail_id |-> rows_of(emails)[i].gmail_id]])
    /\ pc' = [pc EXCEPT ![p] = "eb_ids"]
    /\ obs' = [obs EXCEPT ![p].calls = Append(@, <<loc'[p].op, 0, loc[Other(p)].op>>)]
    /\ UNCHANGED <<store, last, resume, clock, runs>>

\* line 454: the fetchall and the set comprehension; a row without gmail_id
\* raises and the handler at 455-456 leaves the set empty.
batch_ids(p) ==
    /\ pc[p] = "eb_ids"
    /\ LET rows == conn.cursor IN
       loc' = [loc EXCEPT ![p].existing_ids =
                  IF \A i \in 1..Len(rows) : has_col(rows[i], "gmail_id")
                  THEN {rows[i].gmail_id : i \in 1..Len(rows)}
                  ELSE {}]
    /\ conn' = [conn EXCEPT !.cursor = <<>>]
    /\ pc' = [pc EXCEPT ![p] = "eb_next"]
    /\ UNCHANGED <<store, last, ops, obs, resume, clock, runs>>

\* lines 458-478: the head of the loop (skip a stored id, or fetch the full
\* message and go on to store it) and the return after the last message.
batch_next(p) ==
    /\ pc[p] = "eb_next"
    /\ LET l == loc[p] IN
       IF l.idx > Len(l.messages)
       THEN /\ pc' = [pc EXCEPT ![p] = "idle"]
            /\ loc' = [loc EXCEPT ![p] = CallInit]
            /\ last' = Ret("fetch_email_batch", 0, p, FALSE, 0, TRUE, FALSE,
                           [kind |-> "batch", emails |-> l.emails])
       ELSE IF l.messages[l.idx] \in l.existing_ids
       THEN /\ loc' = [loc EXCEPT ![p].idx = @ + 1]
            /\ UNCHANGED <<pc, last>>
       ELSE /\ loc' = [loc EXCEPT ![p].gmail_id = l.messages[l.idx]]
            /\ pc' = [pc EXCEPT ![p] = "ue_insert"]
            /\ UNCHANGED last
    /\ UNCHANGED <<store, ops, obs, resume, clock, runs, conn>>

\* upsert_email lines 167-203 as _process_email calls it: the INSERT ... ON
\* CONFLICT and its commit.
upsert_email_insert(p) ==
    /\ pc[p] = "ue_insert"
    /\ LET gmail_id == loc[p].gmail_id
           full_msg == FullMessage(gmail_id)
           labels == full_msg.labelIds
           is_read == IF \E i \in 1..Len(labels) : labels[i] = "UNREAD" THEN 0 ELSE 1
       IN  /\ (\E r \in emails : r.gmail_id = gmail_id) \/ seq.emails < MaxLocalId
           /\ emails' = upsert_email_rows(emails, seq.emails, gmail_id, labels,
                                          map_labels_to_category(labels),
                                          full_msg.body, is_read, clock)
           /\ seq' = [seq EXCEPT !.emails = upsert_email_seq(emails, @, gmail_id)]
    /\ conn' = execute(conn, <<>>)
    /\ pc' = [pc EXCEPT ![p] = "ue_select"]
    /\ UNCHANGED <<attachments, email_analysis, email_summaries, email_replies,
                   sync_metadata, last, ops, loc, obs, resume, clock, runs>>

\* line 207: the execute of SELECT id FROM emails WHERE gmail_id = ?.
upsert_email_select(p) ==
    /\ pc[p] = "ue_select"
    /\ LET hit == {r \in emails : r.gmail_id = loc[p].gmail_id} IN
       conn' = execute(conn, [i \in 1..Len(rows_of(hit)) |-> [id |-> rows_of(hit)[i].id]])
    /\ pc' = [pc EXCEPT ![p] = "ue_fetch"]
    /\ UNCHANGED <<store, last, ops, loc, obs, resume, clock, runs>>

\* After the last attachment of a message (_process_email lines 559-573): the
\* message joins the page's result.
message_done(l) ==
    [l EXCEPT !.emails = page_emails(@, [kind |-> "email", id |-> l.db_email_id,
                                         gmail_id |-> l.gmail_id]),
              !.idx = @ + 1, !.atts = <<>>]

\* line 208: `return int(self.cursor.fetchone()["id"])`, back in _process_email.
\* Without a row with an id the expression raises, the handler at lines
\* 575-577 returns None and the loop goes on to the next message.
upsert_email_fetch(p) ==
    /\ pc[p] = "ue_fetch"
    /\ LET row == fetchone_row(conn)
           l == loc[p]
           full_msg == FullMessage(l.gmail_id)
           atts == [i \in 1..Len(full_msg.parts) |-> attachment_of(full_msg.parts[i], 0)]
       IN  IF has_col(row, "id")
           THEN /\ last' = Ret("upsert_email", row.id, l.gmail_id, FALSE, 0, TRUE,
                               FALSE, IdRet(row.id))
                /\ IF atts = <<>>
                   THEN /\ loc' = [loc EXCEPT ![p] =
                                      message_done([l EXCEPT !.db_email_id = row.id])]
                        /\ pc' = [pc EXCEPT ![p] = "eb_next"]
                   ELSE /\ loc' = [loc EXCEPT ![p].db_email_id = row.id,
                                              ![p].atts = atts]
                        /\ pc' = [pc EXCEPT ![p] = "ia_insert"]
           ELSE /\ last' = Ret("upsert_email", 0, l.gmail_id, FALSE, 0, TRUE, FALSE,
                               [kind |-> "raised"])
                /\ loc' = [loc EXCEPT ![p] =
                              [l EXCEPT !.emails = page_emails(@, NoRet), !.idx = @ + 1]]
                /\ pc' = [pc EXCEPT ![p] = "eb_next"]
    /\ conn' = fetchone_rest(conn)
    /\ UNCHANGED <<store, ops, obs, resume, clock, runs>>

\* insert_attachment lines 219-229 for the next attachment of the message: the
\* INSERT ... ON CONFLICT and its commit.  A foreign-key failure raises into
\* the handler at 237-239 and the call returns None.
insert_attachment_insert(p) ==
    /\ pc[p] = "ia_insert"
    /\ LET l == loc[p]
           a == Head(l.atts)
       IN  IF \E e \in emails : e.id = l.db_email_id
           THEN /\ \/ seq.attachments < MaxLocalId
                   \/ insert_attachment_seq(attachments, seq.attachments, l.db_email_id,
                                            a.filename, a.content, a.size) = seq.attachments
                /\ attachments' = insert_attachment_rows(attachments, seq.attachments,
                                      l.db_email_id, a.filename, a.content,
                                      a.content_preview, a.size)
                /\ seq' = [seq EXCEPT !.attachments =
                              insert_attachment_seq(attachments, @, l.db_email_id,
                                                    a.filename, a.content, a.size)]
                /\ conn' = execute(conn, <<>>)
                /\ pc' = [pc EXCEPT ![p] = "ia_select"]
                /\ UNCHANGED loc
           ELSE /\ UNCHANGED <<attachments, seq, conn>>
                /\ IF Tail(l.atts) = <<>>
                   THEN /\ loc' = [loc EXCEPT ![p] = message_done(l)]
                        /\ pc' = [pc EXCEPT ![p] = "eb_next"]
                   ELSE /\ loc' = [loc EXCEPT ![p].atts = Tail(@)]
                        /\ UNCHANGED pc
    /\ UNCHANGED <<emails, email_analysis, email_summaries, email_replies,
                   sync_metadata, last, ops, obs, resume, clock, runs>>

\* lines 230-233: the execute of SELECT id FROM attachments WHERE ....
insert_attachment_select(p) ==
    /\ pc[p] = "ia_select"
    /\ LET l == loc[p]
           a == Head(l.atts)
           hit == {r \in attachments : /\ r.email_id = l.db_email_id
                                       /\ r.filename = a.filename
                                       /\ r.size = a.size}
       IN  conn' = execute(conn, [i \in 1..Len(rows_of(hit)) |-> [id |-> rows_of(hit)[i].id]])
    /\ pc' = [pc EXCEPT ![p] = "ia_fetch"]
    /\ UNCHANGED <<store, last, ops, loc, obs, resume, clock, runs>>

\* lines 234-235: the fetchone; _process_email does not use the id returned.
insert_attachment_fetch(p) ==
    /\ pc[p] = "ia_fetch"
    /\ conn' = fetchone_rest(conn)
    /\ IF Tail(loc[p].atts) = <<>>
       THEN /\ loc' = [loc EXCEPT ![p] = message_done(loc[p])]
            /\ pc' = [pc EXCEPT ![p] = "eb_next"]
       ELSE /\ loc' = [loc EXCEPT ![p].atts = Tail(@)]
            /\ pc' = [pc EXCEPT ![p] = "ia_insert"]
    /\ UNCHANGED <<store, last, ops, obs, resume, clock, runs>>

\* analyze_email lines 109-115 up to the execute of SELECT 1 FROM
\* email_analysis WHERE email_id = ? in _is_already_analyzed.
analyze_email_start(p, email_data) ==
    /\ CanCall(p)
    /\ ops' = ops + 1
    /\ loc' = [loc EXCEPT ![p] = [CallInit EXCEPT !.op = "analyze_email",
                                                 !.email_id = email_data.id,
                                                 !.gmail_id = email_data.gmail_id]]
    /\ conn' = execute(conn, IF \E r \in email_analysis : r.email_id = email_data.id
                             THEN <<[one |-> 1]>> ELSE <<>>)
    /\ pc' = [pc EXCEPT ![p] = "ae_check"]
    /\ obs' = [obs EXCEPT ![p].calls = Append(@, <<loc'[p].op, email_data.id, loc[Other(p)].op>>)]
    /\ UNCHANGED <<store, last, resume, clock, runs>>

\* _is_already_analyzed line 349: `fetchone() is not None`.
analyze_email_check(p) ==
    /\ pc[p] = "ae_check"
    /\ pc' = [pc EXCEPT ![p] = IF fetchone_row(conn) # NoRet THEN "ae_existing"
                               ELSE "ae_model"]
    /\ conn' = fetchone_rest(conn)
    /\ UNCHANGED <<store, last, ops, loc, obs, resume, clock, runs>>

\* _get_existing_analysis lines 354-356: the execute of SELECT * FROM
\* email_analysis WHERE email_id = ?.
analyze_email_existing(p) ==
    /\ pc[p] = "ae_existing"
    /\ conn' = execute(conn, rows_of({r \in email_analysis :
                                         r.email_id = loc[p].email_id}))
    /\ pc' = [pc EXCEPT ![p] = "ae_existing_fetch"]
    /\ UNCHANGED <<store, last, ops, loc, obs, resume, clock, runs>>

\* lines 358-375: the fetchone and the object built from the row; no row gives
\* None, a row of another statement raises into the handler at 377-379, which
\* returns None too.
analyze_email_existing_fetch(p) ==
    /\ pc[p] = "ae_existing_fetch"
    /\ LET row == fetchone_row(conn) IN
       last' = Ret("analyze_email", loc[p].email_id, NONE, TRUE, 0, FALSE, FALSE,
                   IF has_col(row, "priority_score")
                   THEN [kind |-> "analysis", email_id |-> row.email_id,
                         gmail_id |-> row.gmail_id,
                         priority_score |-> row.priority_score,
                         sentiment |-> row.sentiment,
                         action_required |-> (row.action_required # 0),
                         suggested_actions |-> json_loads(row.suggested_actions),
                         key_topics |-> json_loads(row.key_topics)]
                   ELSE NoRet)
    /\ conn' = fetchone_rest(conn)
    /\ pc' = [pc EXCEPT ![p] = "idle"]
    /\ loc' = [loc EXCEPT ![p] = CallInit]
    /\ UNCHANGED <<store, ops, obs, resume, clock, runs>>

\* lines 118-142: the model call (llm.invoke answering `response`) and the
\* EmailAnalysis object.
analyze_email_model(p, response) ==
    /\ pc[p] = "ae_model"
    /\ loc' = [loc EXCEPT ![p].analysis =
                  EmailAnalysis(loc[p].email_id, loc[p].gmail_id,
                                _run_ai_analysis(response))]
    /\ obs' = [obs EXCEPT ![p].invoked = Append(@, loc[p].email_id)]
    /\ pc' = [pc EXCEPT ![p] = "ae_store"]
    /\ UNCHANGED <<store, last, ops, resume, clock, runs, conn>>

\* _store_analysis: the INSERT OR REPLACE and its commit; a foreign-key
\* failure is logged and swallowed.
analyze_email_store(p) ==
    /\ pc[p] = "ae_store"
    /\ IF \E e \in emails : e.id = loc[p].email_id
       THEN /\ seq.email_analysis < MaxLocalId
            /\ email_analysis' = _store_analysis(email_analysis, seq.email_analysis,
                                                 loc[p].analysis)
            /\ seq' = [seq EXCEPT !.email_analysis = @ + 1]
       ELSE UNCHANGED <<email_analysis, seq>>
    /\ conn' = execute(conn, <<>>)
    /\ pc' = [pc EXCEPT ![p] = "ae_mark"]
    /\ UNCHANGED <<emails, attachments, email_summaries, email_replies,
                   sync_metadata, last, ops, loc, obs, resume, clock, runs>>

\* _mark_email_analyzed and the return of the analysis (lines 148-151).
analyze_email_mark(p) ==
    /\ pc[p] = "ae_mark"
    /\ emails' = _mark_email_analyzed(emails, loc[p].email_id)
    /\ conn' = execute(conn, <<>>)
    /\ last' = Ret("analyze_email", loc[p].email_id, NONE, FALSE, 1, TRUE, TRUE,
                   loc[p].analysis)
    /\ pc' = [pc EXCEPT ![p] = "idle"]
    /\ loc' = [loc EXCEPT ![p] = CallInit]
    /\ UNCHANGED <<attachments, email_analysis, email_summaries, email_replies,
                   sync_metadata, seq, ops, obs, resume, clock, runs>>

\* update_sync_metadata: one statement and its commit.
update_sync_metadata_call(p, key, value) ==
    /\ CanCall(p)
    /\ ops' = ops + 1
    /\ sync_metadata' = update_sync_metadata(sync_metadata, key, value)
    /\ conn' = execute(conn, <<>>)
    /\ obs' = [obs EXCEPT ![p].calls = Append(@, <<"update_sync_metadata", 0, loc[Other(p)].op>>)]
    /\ last' = Ret("update_sync_metadata", 0, key, FALSE, 0, TRUE, FALSE, NoRet)
    /\ UNCHANGED <<emails, attachments, email_analysis, email_summaries,
                   email_replies, seq, pc, loc, resume, clock, runs>>

\* get_sync_metadata line 122: the execute of SELECT value FROM sync_metadata
\* WHERE key = ?.
get_sync_metadata_select(p, key) ==
    /\ CanCall(p)
    /\ ops' = ops + 1
    /\ loc' = [loc EXCEPT ![p] = [CallInit EXCEPT !.op = "get_sync_metadata",
                                                 !.key = key,
                                                 !.at_select =
                                                     get_sync_metadata(sync_metadata, key)]]
    /\ conn' = execute(conn, IF \E r \in sync_metadata : r.key = key
                             THEN <<[value |-> get_sync_metadata(sync_metadata, key)]>>
                             ELSE <<>>)
    /\ pc' = [pc EXCEPT ![p] = "gm_fetch"]
    /\ obs' = [obs EXCEPT ![p].calls = Append(@, <<loc'[p].op, 0, loc[Other(p)].op>>)]
    /\ UNCHANGED <<store, last, resume, clock, runs>>

\* lines 123-124: `row = fetchone(); return row["value"] if row else None`.
get_sync_metadata_fetch(p) ==
    /\ pc[p] = "gm_fetch"
    /\ LET row == fetchone_row(conn) IN
       last' = Ret("get_sync_metadata", 0, loc[p].key, FALSE, 0, FALSE, FALSE,
                   IF row = NoRet
                   THEN [kind |-> "value", value |-> NONE, at_select |-> loc[p].at_select]
                   ELSE IF has_col(row, "value")
                   THEN [kind |-> "value", value |-> row.value,
                         at_select |-> loc[p].at_select]
                   ELSE [kind |-> "raised"])
    /\ conn' = fetchone_rest(conn)
    /\ pc' = [pc EXCEPT ![p] = "idle"]
    /\ loc' = [loc EXCEPT ![p] = CallInit]
    /\ UNCHANGED <<store, ops, obs, resume, clock, runs>>

vars == <<emails, attachments, email_analysis, email_summaries, email_replies,
          sync_metadata, seq, last, ops, pc, loc, obs, resume, clock, runs, conn>>

Init ==
    /\ emails = {}
    /\ attachments = {}
    /\ email_analysis = {}
    /\ email_summaries = {}
    /\ email_replies = {}
    /\ sync_metadata = {}
    /\ seq = [emails |-> 0, attachments |-> 0, email_analysis |-> 0,
              email_summaries |-> 0, email_replies |-> 0]
    /\ last = Ret("none", 0, NONE, FALSE, 0, FALSE, FALSE, NoRet)
    /\ ops = 0
    /\ pc = [p \in Procs |-> "idle"]
    /\ loc = [p \in Procs |-> LocInit]
    /\ obs = [p \in Procs |-> ObsInit]
    /\ resume = 0
    /\ clock = 0
    /\ runs = 0
    /\ conn = ConnInit

fetch == <<pc, loc, obs, resume, clock, runs, conn>>

\* Inputs of the store-level calls.
GmailIds == {"g1", "g2"}
LocalIds == 1..MaxLocalId
SummaryTypes == {"brief", "detailed"}
Responses ==
    { [kind |-> "json",
       results |-> [priority_score |-> 9, sentiment |-> "Urgent",
                    action_required |-> FALSE,
                    suggested_actions |-> <<"reply">>,
                    brief_summary |-> "s1", key_points |-> <<"k1">>]],
      [kind |-> "json", results |-> [priority_score |-> 2, brief_summary |-> "s2"]],
      [kind |-> "not_json"],
      [kind |-> "raise"] }

\* Store-level calls in any order: the store and the three annotation producers.
Next ==
    \/ \E g \in GmailIds, is_read \in {NoInt, 0, 1} :
          /\ upsert_email(g, <<"INBOX">>, "Inbox", "b1", is_read)
          /\ UNCHANGED fetch
    \/ \E id \in LocalIds, content \in {NONE, "x"} :
          /\ insert_attachment(id, "a.txt", content, NONE, NoInt)
          /\ UNCHANGED fetch
    \/ \E e \in emails, r \in Responses, store_ok \in BOOLEAN :
          /\ analyze_email(e, r, store_ok)
          /\ UNCHANGED fetch
    \/ \E e \in emails, t \in SummaryTypes, r \in Responses, store_ok \in BOOLEAN :
          /\ summarize_email(e, t, r, store_ok)
          /\ UNCHANGED fetch
    \/ \E e \in emails, status \in {"draft", "sent"}, gmail_ok \in BOOLEAN :
          /\ reply(e, status, gmail_ok)
          /\ UNCHANGED fetch
    \/ \E e \in emails :
          /\ delete_email(e.id)
          /\ UNCHANGED fetch
    \/ \E e \in emails :
          /\ mark_email_as_read(e.id, TRUE)
          /\ UNCHANGED fetch

Spec == Init /\ [][Next]_vars

\* The ingestion callers, one call at a time: the full sync, the dashboard's
\* page fetch, and the full sync being stopped.
NextFetch ==
    \/ \E max_emails \in {NoInt, Budget} : fetch_all_emails_start(max_emails)
    \/ fetch_from_gmail_start
    \/ \E p \in Procs, list_ok \in BOOLEAN : fetch_email_batch_list(p, list_ok)
    \/ \E p \in Procs, outcome \in {"ok", "get_failed", "store_failed"},
          att_fails \in {0, 3} : fetch_email_batch_message(p, outcome, att_fails)
    \/ fetch_all_emails_checkpoint
    \/ \E at \in {701, 702} : fetch_all_emails_raise(at)
    \/ fetch_from_gmail_finish
    \/ Interrupt

SpecFetch == Init /\ [][NextFetch]_vars

\* The store after page 1 of the mailbox has been ingested (g1 with its
\* attachment, g2) at time 0, built with the statements of upsert_email and
\* insert_attachment; nothing else has run, and the time is now 1.  The
\* ingestion counts as the behaviour's first operation.
InitStore ==
    LET m1 == FullMessage("g1")
        m2 == FullMessage("g2")
        E1 == upsert_email_rows({}, 0, "g1", m1.labelIds,
                                map_labels_to_category(m1.labelIds), m1.body, 0, 0)
        E2 == upsert_email_rows(E1, 1, "g2", m2.labelIds,
                                map_labels_to_category(m2.labelIds), m2.body, 1, 0)
        A1 == insert_attachment_rows({}, 0, upsert_email_id(E1, "g1"), "a.txt",
                                     "x", "x", 1)
    IN  /\ emails = E2
        /\ attachments = A1
        /\ email_analysis = {}
        /\ email_summaries = {}
        /\ email_replies = {}
        /\ sync_metadata = {}
        /\ seq = [emails |-> 2, attachments |-> 1, email_analysis |-> 0,
                  email_summaries |-> 0, email_replies |-> 0]
        /\ last = Ret("none", 0, NONE, FALSE, 0, FALSE, FALSE, NoRet)
        /\ ops = 1
        /\ pc = [p \in Procs |-> "idle"]
        /\ loc = [p \in Procs |-> LocInit]
        /\ obs = [p \in Procs |-> ObsInit]
        /\ resume = 0
        /\ clock = 1
        /\ runs = 0
        /\ conn = ConnInit

\* Inputs of the store calls on stored messages.
LabelLists == {<<"INBOX">>, <<"SENT", "IMPORTANT">>}
Bodies == {"b9"}
OkResponse == [kind |-> "json", results |-> [priority_score |-> 2, brief_summary |-> "s2"]]

\* Re-ingestion, read marks, attachment retries, annotations and deletion on a
\* store that holds messages.
NextStore ==
    \/ \E g \in GmailIds, labels \in LabelLists, body \in Bodies,
          is_read \in {NoInt, 0, 1} :
          /\ upsert_email(g, labels, map_labels_to_category(labels), body, is_read)
          /\ UNCHANGED fetch
    \/ \E id \in LocalIds, read \in BOOLEAN :
          /\ mark_email_as_read(id, read)
          /\ UNCHANGED fetch
    \/ \E id \in LocalIds, content \in {NONE, "yy"}, content_preview \in {NONE, "p"},
          size \in {NoInt, 1} :
          /\ insert_attachment(id, "a.txt", content, content_preview, size)
          /\ UNCHANGED fetch
    \/ \E e \in emails :
          /\ analyze_email(e, OkResponse, TRUE)
          /\ UNCHANGED fetch
    \/ \E e \in emails :
          /\ summarize_email(e, "brief", OkResponse, TRUE)
          /\ UNCHANGED fetch
    \/ \E e \in emails :
          /\ reply(e, "draft", TRUE)
          /\ UNCHANGED fetch
    \/ \E id \in LocalIds :
          /\ delete_email(id)
          /\ UNCHANGED fetch

SpecStore == InitStore /\ [][NextStore]_vars

\* Model responses for the annotation producer: JSON with values beyond, at and
\* inside the limits or with keys missing; JSON whose values make the
\* validation raise (a priority that int() rejects, a null sentiment); text
\* that is not JSON; an exception or a timeout of the call.
AnalysisResponses ==
    { [kind |-> "json",
       results |-> [priority_score |-> 9, sentiment |-> "furious",
                    action_required |-> TRUE,
                    suggested_actions |-> <<"a1", "a2", "a3", "a4", "a5", "a6">>,
                    key_topics |-> <<"t1", "t2", "t3", "t4", "t5", "t6", "t7", "t8",
                                     "t9", "t10", "t11">>]],
      [kind |-> "json", results |-> [priority_score |-> 0, sentiment |-> "Urgent"]],
      [kind |-> "json", results |-> [priority_score |-> -3, sentiment |-> "negative"]],
      [kind |-> "json", results |-> [summary |-> "s"]],
      [kind |-> "json",
       results |-> [priority_score |-> 4, sentiment |-> "POSITIVE",
                    suggested_actions |-> <<"a1", "a2", "a3", "a4", "a5">>]],
      [kind |-> "json_invalid"],
      [kind |-> "not_json"],
      [kind |-> "raise"] }

\* What can happen in one single-item call of a batch.
ItemOutcomes ==
    {[kind |-> "none"]} \cup
    {[kind |-> "call", response |-> r, store_ok |-> ok] :
        r \in {OkResponse, [kind |-> "raise"]}, ok \in BOOLEAN}

\* The annotation producer on a store that holds messages.
NextAnalyze ==
    \/ \E limit \in 1..(MaxLocalId + 1) :
       \E sel \in _get_unanalyzed_emails(emails, limit) :
       \E outcomes \in [1..Len(sel) -> ItemOutcomes] :
          /\ batch_analyze_emails(limit, sel, outcomes)
          /\ UNCHANGED fetch
    \/ \E e \in emails, r \in AnalysisResponses, store_ok \in BOOLEAN :
          /\ analyze_email(e, r, store_ok)
          /\ UNCHANGED fetch
    \/ \E id \in LocalIds :
          /\ delete_email(id)
          /\ UNCHANGED fetch

SpecAnalyze == InitStore /\ [][NextAnalyze]_vars

\* Label lists for map_labels_to_category: the five labels it knows and two it
\* does not, in any order, with repetitions, up to MaxLabels long, and None.
Labels == {"INBOX", "SENT", "DRAFT", "CATEGORY_PROMOTIONS", "IMPORTANT", "UNREAD",
           "STARRED"}
LabelArgs ==
    {[none |-> TRUE]} \cup
    {[none |-> FALSE, list |-> l] : l \in UNION {[1..n -> Labels] : n \in 0..MaxLabels}}

NextLabels == \E arg \in LabelArgs : categorize(arg) /\ UNCHANGED fetch

SpecLabels == Init /\ [][NextLabels]_vars

\* The reply log on a store that holds messages: drafts and sent replies
\* (the provider call succeeding or not), the two maintenance calls on reply
\* records, and the other writers of the store.
NextReplies ==
    \/ \E e \in emails, status \in {"draft", "sent"}, gmail_ok \in BOOLEAN :
          /\ reply(e, status, gmail_ok)
          /\ UNCHANGED fetch
    \/ \E id \in LocalIds :
          /\ delete_reply(id)
          /\ UNCHANGED fetch
    \/ \E id \in LocalIds, new_status \in {"sent", "failed"} :
          /\ update_reply_status(id, new_status)
          /\ UNCHANGED fetch
    \/ \E id \in LocalIds :
          /\ delete_email(id)
          /\ UNCHANGED fetch
    \/ \E g \in GmailIds :
          /\ upsert_email(g, <<"INBOX">>, "Inbox", "b9", NoInt)
          /\ UNCHANGED fetch
    \/ \E e \in emails :
          /\ analyze_email(e, OkResponse, TRUE)
          /\ UNCHANGED fetch

SpecReplies == InitStore /\ [][NextReplies]_vars

\* The annotation producers with their store writes going through or not, the
\* removal of summaries and re-ingestion, on a store that holds messages.
NextFlags ==
    \/ \E e \in emails, store_ok \in BOOLEAN :
          /\ analyze_email(e, OkResponse, store_ok)
          /\ UNCHANGED fetch
    \/ \E e \in emails, t \in SummaryTypes, store_ok \in BOOLEAN :
          /\ summarize_email(e, t, OkResponse, store_ok)
          /\ UNCHANGED fetch
    \/ \E id \in LocalIds, t \in SummaryTypes \cup {NONE} :
          /\ delete_summary(id, t)
          /\ UNCHANGED fetch
    \/ \E g \in GmailIds :
          /\ upsert_email(g, <<"INBOX">>, "Inbox", "b9", NoInt)
          /\ UNCHANGED fetch

SpecFlags == InitStore /\ [][NextFlags]_vars

\* What three attachments().get calls in a row may do: the first return at
\* call 1, 2 or 3 or never, and a return followed by failures never asked for.
GetOutcomes ==
    {<<TRUE, TRUE, TRUE>>, <<TRUE, FALSE, FALSE>>, <<FALSE, TRUE, FALSE>>,
     <<FALSE, FALSE, TRUE>>, <<FALSE, FALSE, FALSE>>}

\* Messages with one and with two attachment parts processed on their own,
\* every attachments().get call returning or raising.
NextAttach ==
    \E gmail_id \in {"g1", "g5"} :
    \E outcomes \in [1..Len(FullMessage(gmail_id).parts) -> GetOutcomes] :
        /\ _process_email(gmail_id, outcomes)
        /\ UNCHANGED fetch

SpecAttach == Init /\ [][NextAttach]_vars

\* The full sync against a provider that answers a list call with any page:
\* any of the listings below with any next cursor, whatever cursor was sent,
\* so that cursors repeat and cycle and a later page lists a message again.
AnyPages ==
    {[messages |-> m, nextPageToken |-> t] :
        m \in {<<>>, <<"g1">>, <<"g2">>, <<"g1", "g2">>, <<"g3">>, <<"g2", "g3">>},
        t \in {NONE, "t2", "t3"}}

NextCursor ==
    \/ \E max_emails \in {NoInt, Budget} : fetch_all_emails_start(max_emails)
    \/ \E list_ok \in BOOLEAN, page \in AnyPages :
          fetch_email_batch_page("sync", list_ok, page)
    \/ \E outcome \in {"ok", "get_failed", "store_failed"} :
          fetch_email_batch_message("sync", outcome, 0)
    \/ fetch_all_emails_checkpoint

SpecCursor == Init /\ [][NextCursor]_vars

\* The summary producer with the model answering and the store writing:
\* single calls and batches, of either type.
NextSummarize ==
    \/ \E e \in emails, t \in SummaryTypes :
          /\ summarize_email(e, t, OkResponse, TRUE)
          /\ UNCHANGED fetch
    \/ \E limit \in 1..MaxLocalId, t \in SummaryTypes :
       \E sel \in _get_unsummarized_emails(emails, limit) :
          /\ batch_summarize_emails(limit, t, sel,
                                    [i \in 1..Len(sel) |->
                                        [response |-> OkResponse, store_ok |-> TRUE]])
          /\ UNCHANGED fetch

SpecSummarize == InitStore /\ [][NextSummarize]_vars

\* The start of SpecOverlap: an empty store, no SQLiteManager yet, two callers.
InitOverlap ==
    /\ emails = {}
    /\ attachments = {}
    /\ email_analysis = {}
    /\ email_summaries = {}
    /\ email_replies = {}
    /\ sync_metadata = {}
    /\ seq = [emails |-> 0, attachments |-> 0, email_analysis |-> 0,
              email_summaries |-> 0, email_replies |-> 0]
    /\ last = Ret("none", 0, NONE, FALSE, 0, FALSE, FALSE, NoRet)
    /\ ops = 0
    /\ pc = [p \in Procs |-> "idle"]
    /\ loc = [p \in Procs |-> CallInit]
    /\ obs = [p \in Procs |-> SeenInit]
    /\ resume = 0
    /\ clock = 0
    /\ runs = 0
    /\ conn = ConnInit

\* Two callers construct the SQLiteManager and then run page fetches,
\* analyses and checkpoint reads and writes, their statements interleaved in
\* any order.
NextOverlap ==
    \/ \E p \in Procs : new_lock(p)
    \/ \E p \in Procs : new_check(p)
    \/ \E p \in Procs : new_create(p)
    \/ \E p \in Procs : new_return(p)
    \/ \E p \in Procs : batch_start(p)
    \/ \E p \in Procs : batch_ids(p)
    \/ \E p \in Procs : batch_next(p)
    \/ \E p \in Procs : upsert_email_insert(p)
    \/ \E p \in Procs : upsert_email_select(p)
    \/ \E p \in Procs : upsert_email_fetch(p)
    \/ \E p \in Procs : insert_attachment_insert(p)
    \/ \E p \in Procs : insert_attachment_select(p)
    \/ \E p \in Procs : insert_attachment_fetch(p)
    \/ \E p \in Procs, e \in emails : analyze_email_start(p, e)
    \/ \E p \in Procs : analyze_email_check(p)
    \/ \E p \in Procs : analyze_email_existing(p)
    \/ \E p \in Procs : analyze_email_existing_fetch(p)
    \/ \E p \in Procs, r \in {OkResponse, [kind |-> "raise"]} : analyze_email_model(p, r)
    \/ \E p \in Procs : analyze_email_store(p)
    \/ \E p \in Procs : analyze_email_mark(p)
    \/ \E p \in Procs : update_sync_metadata_call(p, "last_page_token", "t2")
    \/ \E p \in Procs : get_sync_metadata_select(p, "last_page_token")
    \/ \E p \in Procs : get_sync_metadata_fetch(p)

SpecOverlap == InitOverlap /\ [][NextOverlap]_vars

\* ==================================================================== claims
\* C1: in every reachable state of the store, no two emails rows share a
\* gmail_id, no two attachments rows share (email_id, filename, size), no two
\* email_analysis rows share an email_id and no two email_summaries rows share
\* (email_id, summary_type).
C1_Uniqueness ==
    /\ \A a, b \in emails : a.gmail_id = b.gmail_id => a = b
    /\ \A a, b \in attachments :
          (a.email_id = b.email_id /\ a.filename = b.filename /\ a.size = b.size)
          => a = b
    /\ \A a, b \in email_analysis : a.email_id = b.email_id => a = b
    /\ \A a, b \in email_summaries :
          (a.email_id = b.email_id /\ a.summary_type = b.summary_type) => a = b

\* An upsert has just hit the row of a stored gmail_id while that message
\* already owns an attachment and an analysis.
C1_Witness ==
    /\ last.op = "upsert_email"
    /\ last.hit
    /\ \E a \in attachments : a.email_id = last.email_id
    /\ \E a \in email_analysis : a.email_id = last.email_id

\* A step that is one more call of `op` for email `id`.
CallOf(op, id) ==
    /\ ops' = ops + 1
    /\ last'.op = op
    /\ last'.email_id = id

\* C2: when analyze_email has computed and stored the analysis of a message and
\* is called again for it right away, the two calls make one model call in all:
\* the second finds the row, calls no model, writes nothing and returns an
\* analysis equal to the first call's.
C2_AnalyzeTwiceOneModelCall ==
    [][ ( /\ last.op = "analyze_email"
          /\ ~last.hit
          /\ \E r \in email_analysis : r.email_id = last.email_id
          /\ CallOf("analyze_email", last.email_id) )
        => ( /\ last.model_calls + last'.model_calls = 1
             /\ last'.hit
             /\ ~last'.wrote
             /\ UNCHANGED store
             /\ last'.ret = last.ret ) ]_vars

\* The third call of a behaviour is a second analyze_email that was answered
\* from the stored row.
C2_Witness ==
    /\ ops = 3
    /\ last.op = "analyze_email"
    /\ last.hit
    /\ last.ret.kind = "analysis"

\* C3: summarize_email is cached per (message, summary_type): a call for a pair
\* that has a row returns that row with no model call and no write; a call for
\* a pair that has none (the message may have rows of other types) calls the
\* model once, keeps every existing row as it is and, its INSERT going through,
\* adds one row for the pair.
C3_SummaryKeyedByType ==
    [][ \A e \in emails, t \in SummaryTypes :
          CallOf("summarize_email", e.id) /\ last'.key = t
          => IF \E r \in email_summaries : r.email_id = e.id /\ r.summary_type = t
             THEN LET row == CHOOSE r \in email_summaries :
                                 r.email_id = e.id /\ r.summary_type = t
                  IN  /\ last'.hit
                      /\ last'.model_calls = 0
                      /\ UNCHANGED store
                      /\ last'.ret.kind = "summary"
                      /\ last'.ret.summary_type = t
                      /\ last'.ret.brief_summary = row.brief_summary
                      /\ last'.ret.key_points = row.key_points.json
             ELSE /\ ~last'.hit
                  /\ last'.model_calls = 1
                  /\ email_summaries \subseteq email_summaries'
                  /\ last'.stored =>
                        /\ Cardinality(email_summaries') = Cardinality(email_summaries) + 1
                        /\ \E r \in email_summaries' :
                              /\ r.email_id = e.id
                              /\ r.summary_type = t
                              /\ r.brief_summary = last'.ret.brief_summary
        ]_vars

\* A call was answered from the stored row while the same message also has a
\* summary of another type.
C3_Witness ==
    /\ last.op = "summarize_email"
    /\ last.hit
    /\ \E a, b \in email_summaries :
          /\ a.email_id = last.email_id
          /\ b.email_id = last.email_id
          /\ a.summary_type = last.key
          /\ b.summary_type # last.key

\* The gmail ids of the rows of an emails table / listed on a page.
StoredIds(E) == {r.gmail_id : r \in E}
Listed(p) == {loc[p].messages[i] : i \in 1..Len(loc[p].messages)}
Cursor == get_sync_metadata(sync_metadata, "last_page_token")

FirstPage ==
    \/ pc["sync"] = "list" /\ loc["sync"].batch_count = 0
    \/ pc["sync"] \in {"loop", "ret"} /\ loc["sync"].batch_count = 1

\* C6: once a full sync has been stopped after checkpointing page k (resume =
\* k), the stored cursor is the cursor of page k+1 until the next call starts,
\* the next fetch_all_emails lists page k+1 first, and that run fetches no full
\* message of pages 1..k.
C6_Resume ==
    resume > 0 =>
        /\ (\A p \in Procs : Idle(p)) => Cursor = Mailbox[resume].nextPageToken
        /\ ~Idle("sync") =>
              /\ FirstPage => PageOf(loc["sync"].page_token) = resume + 1
              /\ obs["sync"].run_fetched \cap MsgsUpTo(resume) = {}

\* The resumed run has fetched a message of a later page while a message of
\* pages 1..k is still not stored.
C6_Witness ==
    /\ resume > 0
    /\ pc["sync"] = "ret"
    /\ obs["sync"].fetched # {}
    /\ \E g \in MsgsUpTo(resume) : g \notin StoredIds(emails)

\* A step in which fetch_all_emails finishes a page without raising: the
\* checkpoint is written and the loop either goes on or returns.
PageFinished ==
    /\ pc["sync"] = "ret"
    /\ pc'["sync"] \in {"list", "idle"}
    /\ ~obs'["sync"].raised

Counter(M) ==
    LET v == get_sync_metadata(M, "total_emails_fetched") IN
    IF v = NONE THEN 0 ELSE int(v)

\* C7: after every page of fetch_all_emails the cursor is the page's next
\* cursor, the last-sync time is the current time and the cumulative counter
\* has grown by the number of messages the page stored.
C7_CheckpointAllThree ==
    [][ PageFinished =>
          /\ Cursor' = or_empty(loc["sync"].next_token)
          /\ get_sync_metadata(sync_metadata', "last_sync_time") = str(clock)
          /\ Counter(sync_metadata') = Counter(sync_metadata) + Len(loc["sync"].emails)
      ]_vars

\* C8: fetch_all_emails returns after a page exactly when the provider gave no
\* next cursor, the page listed no message, or the budget is reached; otherwise
\* it lists the next page.
C8_StopsExactlyWhen ==
    [][ PageFinished =>
          LET l == loc["sync"]
              total == l.total_processed + Len(l.emails)
          IN  (pc'["sync"] = "idle")
              <=> \/ l.next_token = NONE
                  \/ l.messages = <<>>
                  \/ (l.max_emails # NoInt /\ total >= l.max_emails)
      ]_vars

\* C9: when the list call of a page fails, the page returns an empty result,
\* nothing is written to emails and attachments, and the stored cursor after
\* the caller has finished that page is the one stored before it.
C9_FailedListKeepsCursor ==
    [][ \A p \in Procs :
          ( /\ pc[p] = "ret"
            /\ obs[p].list_failed
            /\ pc'[p] \in {"list", "idle"}
            /\ ~obs'[p].raised )
          => /\ loc[p].emails = <<>>
             /\ emails' = obs[p].snap_emails
             /\ attachments' = obs[p].snap_attachments
             /\ or_empty(Cursor') = or_empty(obs[p].token_before)
      ]_vars

\* C10: when the list call succeeded, a page's result holds no message whose
\* processing failed, and every other listed message that was not stored at
\* the start of the page has been fetched, is stored and is in the result; the
\* page's next cursor is the provider's.
C10_MessageIsolation ==
    \A p \in Procs :
        (pc[p] = "ret" /\ ~obs[p].list_failed)
        => /\ \A i \in 1..Len(loc[p].emails) :
                 /\ loc[p].emails[i].kind = "email"
                 /\ loc[p].emails[i].gmail_id \notin obs[p].failed
           /\ \A g \in Listed(p) \ (StoredIds(obs[p].snap_emails) \cup obs[p].failed) :
                 /\ g \in obs[p].fetched
                 /\ g \in StoredIds(emails)
                 /\ \E i \in 1..Len(loc[p].emails) :
                       loc[p].emails[i].kind = "email" /\ loc[p].emails[i].gmail_id = g
           /\ loc[p].next_token = Mailbox[PageOf(loc[p].page_token)].nextPageToken

\* A page on which one message failed and another one was stored and returned.
C10_Witness ==
    \E p \in Procs :
        /\ pc[p] = "ret"
        /\ obs[p].failed # {}
        /\ loc[p].emails # <<>>

\* The gmail ids of the messages a page's result holds.
ResultIds(p) ==
    {loc[p].emails[i].gmail_id :
        i \in {j \in 1..Len(loc[p].emails) : loc[p].emails[j].kind = "email"}}

RaiseStep == pc["sync"] = "ret" /\ obs'["sync"].raised

RowOf(E, g) == CHOOSE r \in E : r.gmail_id = g

\* C13: upsert_email on a stored gmail_id with is_read omitted (None) leaves
\* the stored read flag as it was.
C13_ReadFlagPreserved ==
    [][ \A g \in StoredIds(emails), labels \in LabelLists, body \in Bodies :
          upsert_email(g, labels, map_labels_to_category(labels), body, NoInt)
          => RowOf(emails', g).is_read = RowOf(emails, g).is_read
      ]_vars

\* C14: upsert_email on a stored gmail_id inserts no row; the row keeps its
\* local id, which the call returns; labels, category and the verbatim columns
\* take the new values; ai_analyzed, ai_summarized and created_at stay; the
\* other rows are untouched.
C14_UpsertExisting ==
    [][ \A g \in StoredIds(emails), labels \in LabelLists, body \in Bodies,
           is_read \in {NoInt, 0, 1} :
          upsert_email(g, labels, map_labels_to_category(labels), body, is_read)
          => LET old == RowOf(emails, g)
                 new == RowOf(emails', g)
             IN  /\ Cardinality(emails') = Cardinality(emails)
                 /\ seq'.emails = seq.emails
                 /\ new.id = old.id
                 /\ last'.ret = IdRet(old.id)
                 /\ new.labels = labels
                 /\ new.category = map_labels_to_category(labels)
                 /\ new.body = body
                 /\ new.ai_analyzed = old.ai_analyzed
                 /\ new.ai_summarized = old.ai_summarized
                 /\ new.created_at = old.created_at
                 /\ \A r \in emails : r.gmail_id # g => r \in emails'
      ]_vars

\* An analyzed message stored earlier has been re-ingested with new values.
C14_Witness ==
    /\ last.op = "upsert_email"
    /\ last.hit
    /\ \E r \in emails :
          /\ r.id = last.email_id
          /\ r.ai_analyzed
          /\ r.created_at < clock
          /\ r.body = "b9"
          /\ r.labels = <<"SENT", "IMPORTANT">>

\* The attachments row of a key.
AttRow(A, email_id, filename, size) ==
    CHOOSE r \in A : r.email_id = email_id /\ r.filename = filename /\ r.size = size

HasAtt(A, email_id, filename, size) ==
    \E r \in A : r.email_id = email_id /\ r.filename = filename /\ r.size = size

\* C15: insert_attachment on a stored (email_id, filename, size) key adds no
\* row; of the existing row only content_preview and content change, and a call
\* without content (None) keeps the stored content; other rows are untouched.
C15_AttachmentConflict ==
    [][ \A id \in LocalIds, content \in {NONE, "yy"}, content_preview \in {NONE, "p"},
           size \in {NoInt, 1} :
          LET sz == IF size # NoInt THEN size
                    ELSE IF content = NONE THEN 0 ELSE blob_len(content)
          IN  ( /\ insert_attachment(id, "a.txt", content, content_preview, size)
                /\ HasAtt(attachments, id, "a.txt", sz) )
              => LET old == AttRow(attachments, id, "a.txt", sz)
                     new == AttRow(attachments', id, "a.txt", sz)
                 IN  /\ Cardinality(attachments') = Cardinality(attachments)
                     /\ seq'.attachments = seq.attachments
                     /\ new.id = old.id
                     /\ new.content = IF content = NONE THEN old.content ELSE content
                     /\ new.content_preview =
                           IF content_preview = NONE THEN "" ELSE content_preview
                     /\ \A r \in attachments : r # old => r \in attachments'
                     /\ emails' = emails
      ]_vars

\* A retry without content hit the stored attachment, whose blob is still there
\* under the new preview.
C15_Witness ==
    /\ last.op = "insert_attachment"
    /\ last.hit
    /\ \E r \in attachments :
          /\ r.email_id = last.email_id
          /\ r.content = "x"
          /\ r.content_preview = "p"

\* C16: after delete_email(id) no attachments, email_analysis, email_summaries
\* or email_replies row references id, the emails row is gone, every row of
\* another message is as it was, and every remaining child row references a
\* stored message.
C16_CascadeDelete ==
    [][ \A id \in LocalIds :
          delete_email(id)
          => /\ emails' = {r \in emails : r.id # id}
             /\ attachments' = {r \in attachments : r.email_id # id}
             /\ email_analysis' = {r \in email_analysis : r.email_id # id}
             /\ email_summaries' = {r \in email_summaries : r.email_id # id}
             /\ email_replies' = {r \in email_replies : r.original_email_id # id}
             /\ \A r \in attachments' \cup email_analysis' \cup email_summaries' :
                   \E e \in emails' : e.id = r.email_id
             /\ \A r \in email_replies' : \E e \in emails' : e.id = r.original_email_id
      ]_vars

\* A message with an attachment and an analysis has been deleted while another
\* message keeps its own attachment.
C16_Witness ==
    /\ last.op = "delete_email"
    /\ \A r \in emails : r.id # last.email_id
    /\ seq.email_analysis > 0 /\ email_analysis = {}
    /\ Cardinality(attachments) < seq.attachments
    /\ \E e \in emails : \E a \in attachments : a.email_id = e.id

\* An analysis (returned object or stored row) within the limits.
Clamped(a, actions, topics) ==
    /\ a.priority_score \in 1..5
    /\ a.sentiment \in {"positive", "negative", "neutral", "urgent"}
    /\ Len(actions) <= 5
    /\ Len(topics) <= 10

\* C17: whatever the model answers, the analysis analyze_email returns and
\* every email_analysis row are within the limits; a JSON answer's priority
\* is cut to 1..5 (3 when missing), an unrecognized or missing sentiment
\* becomes "neutral", the lists are cut to their first 5 and 10 entries.
C17_Clamping ==
    [][ \A e \in emails, r \in AnalysisResponses, store_ok \in BOOLEAN :
          analyze_email(e, r, store_ok)
          => /\ last'.ret.kind = "analysis"
             /\ Clamped(last'.ret, last'.ret.suggested_actions, last'.ret.key_topics)
             /\ \A row \in email_analysis' :
                   Clamped(row, row.suggested_actions.json, row.key_topics.json)
             /\ (r.kind = "json" /\ ~last'.hit) =>
                   LET res == r.results
                       given(k) == k \in DOMAIN res
                   IN  /\ last'.ret.priority_score =
                             IF ~given("priority_score") THEN 3
                             ELSE IF res.priority_score > 5 THEN 5
                             ELSE IF res.priority_score < 1 THEN 1
                             ELSE res.priority_score
                       /\ ~given("sentiment") => last'.ret.sentiment = "neutral"
                       /\ (given("sentiment") /\ res.sentiment = "furious")
                             => last'.ret.sentiment = "neutral"
                       /\ given("suggested_actions") =>
                             \A i \in 1..Len(last'.ret.suggested_actions) :
                                 last'.ret.suggested_actions[i] = res.suggested_actions[i]
      ]_vars

\* The answer with priority 9, sentiment "furious", 6 actions and 11 topics has
\* been cut and stored.
C17_Witness ==
    /\ last.op = "analyze_email"
    /\ last.stored
    /\ \E row \in email_analysis :
          /\ row.email_id = last.email_id
          /\ row.priority_score = 5
          /\ row.sentiment = "neutral"
          /\ Len(row.suggested_actions.json) = 5
          /\ Len(row.key_topics.json) = 10

\* The fixed payload analyze_email gives when the model call failed.
IsFallback(a, action_required, actions) ==
    /\ a.priority_score = 3
    /\ a.sentiment = "neutral"
    /\ action_required
    /\ actions = <<"Review email manually">>

\* C18: when the model call raises or times out, or answers with text that is
\* not the expected JSON, analyze_email on a message not yet analyzed returns
\* the fallback payload (priority 3, "neutral", action required, "Review email
\* manually") after one model call, and the row it stores holds that payload.
C18_Fallback ==
    [][ \A e \in emails, store_ok \in BOOLEAN :
        \A r \in {x \in AnalysisResponses : x.kind # "json"} :
          ( /\ analyze_email(e, r, store_ok)
            /\ \A row \in email_analysis : row.email_id # e.id )
          => /\ last'.ret.kind = "analysis"
             /\ last'.ret.email_id = e.id
             /\ last'.model_calls = 1
             /\ IsFallback(last'.ret, last'.ret.action_required,
                           last'.ret.suggested_actions)
             /\ store_ok =>
                   \E row \in email_analysis' :
                      /\ row.email_id = e.id
                      /\ IsFallback(row, row.action_required = 1,
                                    row.suggested_actions.json)
             /\ \A row \in email_analysis : row \in email_analysis'
      ]_vars

\* A failed model call has left the fallback payload in email_analysis.
C18_Witness ==
    /\ last.op = "analyze_email"
    /\ last.model_calls = 1
    /\ last.stored
    /\ last.ret.suggested_actions = <<"Review email manually">>
    /\ \E row \in email_analysis :
          /\ row.email_id = last.email_id
          /\ row.suggested_actions.json = <<"Review email manually">>
          /\ row.priority_score = 3

\* The labels of an argument of map_labels_to_category, as a set.
LabelSet(arg) == IF arg.none THEN {} ELSE {arg.list[i] : i \in 1..Len(arg.list)}

\* C19: map_labels_to_category returns, for every label list (None, empty,
\* with repetitions, in any order), the category of the first label present
\* among INBOX, SENT, DRAFT, CATEGORY_PROMOTIONS, IMPORTANT in that order, and
\* Other when none is present; the result depends on the set of labels only.
C19_FirstMatch ==
    last.op = "map_labels_to_category" =>
        LET set == LabelSet(last.ret.arg)
            c == last.ret.category
        IN  /\ c \in {"Inbox", "Sent", "Drafts", "Promotions", "Important", "Other"}
            /\ (c = "Inbox") <=> ("INBOX" \in set)
            /\ (c = "Sent") <=> ("SENT" \in set /\ "INBOX" \notin set)
            /\ (c = "Drafts") <=> ("DRAFT" \in set /\ {"INBOX", "SENT"} \cap set = {})
            /\ (c = "Promotions") <=>
                  ("CATEGORY_PROMOTIONS" \in set /\ {"INBOX", "SENT", "DRAFT"} \cap set = {})
            /\ (c = "Important") <=>
                  ( /\ "IMPORTANT" \in set
                    /\ {"INBOX", "SENT", "DRAFT", "CATEGORY_PROMOTIONS"} \cap set = {} )
            /\ (c = "Other") <=>
                  ({"INBOX", "SENT", "DRAFT", "CATEGORY_PROMOTIONS", "IMPORTANT"}
                      \cap set = {})
            /\ \A arg \in LabelArgs :
                  LabelSet(arg) = set
                  => map_labels_to_category(labels_or_empty(arg)) = c

\* A list with IMPORTANT before INBOX has been classified as Inbox.
C19_Witness ==
    /\ last.op = "map_labels_to_category"
    /\ ~last.ret.arg.none
    /\ last.ret.arg.list = <<"IMPORTANT", "INBOX">>
    /\ last.ret.category = "Inbox"

\* C20: batch_analyze_emails(limit) takes at most limit messages (all of the
\* unflagged ones when there are fewer), each with ai_analyzed not set when
\* the batch was selected and each once; every item is run through the
\* single-item path, whatever the earlier items gave; an item that yields
\* nothing is left as it was; the returned list holds the analyses of the
\* other items, one each, in processing order.
C20_Batch ==
    [][ (last'.op = "batch_analyze_emails" /\ ops' = ops + 1) =>
          LET ret == last'.ret
              sel == ret.selected
              n == Len(sel)
              unflagged == {r.id : r \in {x \in emails : ~x.ai_analyzed}}
              kept == {i \in 1..n : ret.produced[i]}
              nth(k) == CHOOSE i \in kept : Cardinality({j \in kept : j <= i}) = k
          IN  /\ n <= ret.limit
              /\ n = IF ret.limit <= Cardinality(unflagged) THEN ret.limit
                     ELSE Cardinality(unflagged)
              /\ \A i \in 1..n : sel[i] \in unflagged
              /\ \A i, j \in 1..n : i # j => sel[i] # sel[j]
              /\ Len(ret.results) = Cardinality(kept)
              /\ \A k \in 1..Len(ret.results) :
                    /\ ret.results[k].kind = "analysis"
                    /\ ret.results[k].email_id = sel[nth(k)]
              /\ \A i \in kept : \E r \in emails' : r.id = sel[i] /\ r.ai_analyzed
              /\ \A i \in (1..n) \ kept :
                    /\ \E r \in emails' : r.id = sel[i] /\ ~r.ai_analyzed
                    /\ \A row \in email_analysis' : row.email_id # sel[i]
              /\ last'.model_calls = Cardinality(kept)
              /\ \A r \in emails : r.id \notin unflagged => r \in emails'
      ]_vars

\* A batch of two whose first item yielded nothing and whose second item was
\* analyzed and returned.
C20_Witness ==
    /\ last.op = "batch_analyze_emails"
    /\ last.ret.produced = <<FALSE, TRUE>>
    /\ Len(last.ret.results) = 1
    /\ last.ret.results[1].email_id = last.ret.selected[2]

\* No caller is inside a call.
Quiescent == \A p \in Procs : pc[p] = "idle"

\* The emails and attachments tables after fetch_email_batch has gone through
\* the listed messages on its own, in order, starting from the tables db.
RECURSIVE page_stored(_, _)
page_stored(db, msgs) ==
    IF msgs = <<>> THEN db
    ELSE LET g == Head(msgs)
             full_msg == FullMessage(g)
             labels == full_msg.labelIds
             is_read == IF \E i \in 1..Len(labels) : labels[i] = "UNREAD" THEN 0 ELSE 1
             E == upsert_email_rows(db.emails, db.n, g, labels,
                                    map_labels_to_category(labels), full_msg.body,
                                    is_read, 0)
             A == store_attachments(db.attachments, db.m, upsert_email_id(E, g),
                                    [i \in 1..Len(full_msg.parts) |->
                                        attachment_of(full_msg.parts[i], 0)])
         IN  page_stored([emails |-> E, n |-> upsert_email_seq(db.emails, db.n, g),
                          attachments |-> A[1], m |-> A[2]], Tail(msgs))

\* The names of the calls a caller has started.
CallsOf(p) == [i \in 1..Len(obs[p].calls) |-> obs[p].calls[i][1]]

\* C21: two overlapping calls on the same store end as some sequential order
\* of the two ends.  Two fetch_email_batch calls of the same page leave the
\* emails and attachments tables one call alone leaves (the second call of a
\* sequential order skips every message): one row per gmail_id, each
\* attachment once and under its own message.  Two analyze_email calls for
\* the same stored message leave exactly one email_analysis row for it, and
\* the message flagged.
C21_OverlapAsSequential ==
    Quiescent =>
        /\ (\A p \in Procs : CallsOf(p) = <<"fetch_email_batch">>)
           => LET db == page_stored([emails |-> {}, n |-> 0, attachments |-> {}, m |-> 0],
                                    Mailbox[1].messages)
              IN  /\ emails = db.emails
                  /\ attachments = db.attachments
        /\ \A p \in Procs, id \in LocalIds :
              ( /\ CallsOf(p) = <<"fetch_email_batch", "analyze_email">>
                /\ CallsOf(Other(p)) = <<"analyze_email">>
                /\ obs[p].calls[2][2] = id
                /\ obs[Other(p)].calls[1][2] = id
                /\ obs[p].calls[2][3] \in {"none", "analyze_email"}
                /\ obs[Other(p)].calls[1][3] \in {"none", "analyze_email"} )
              => /\ Cardinality({r \in email_analysis : r.email_id = id}) = 1
                 /\ \E e \in emails : e.id = id /\ e.ai_analyzed

C23_AtMostOnceUnderOverlap ==
    \A p \in Procs, id \in LocalIds :
        ( /\ CallsOf(p) = <<"fetch_email_batch", "analyze_email">>
          /\ CallsOf(Other(p)) = <<"analyze_email">>
          /\ obs[p].calls[2][2] = id
          /\ obs[Other(p)].calls[1][2] = id
          /\ obs[p].calls[2][3] \in {"none", "analyze_email"}
          /\ obs[Other(p)].calls[1][3] \in {"none", "analyze_email"} )
        => Len(obs[p].invoked) + Len(obs[Other(p)].invoked) <= 1

\* C24: in every reachable state a message's ai_analyzed flag is set exactly
\* when it has an email_analysis row, and its ai_summarized flag is set
\* exactly when it has at least one email_summaries row.
C24_FlagsMirror ==
    \A e \in emails :
        /\ e.ai_analyzed <=> \E r \in email_analysis : r.email_id = e.id
        /\ e.ai_summarized <=> \E r \in email_summaries : r.email_id = e.id

\* C25: for every attachment part _process_email makes at most 3 provider
\* calls, none after the first one that returns, with one sleep between two
\* consecutive calls; when all 3 raise, the attachment is recorded with size
\* 0, no content and the preview "Failed to fetch attachment content", and the
\* message, its body and its other attachments are stored all the same.
C25_AttachmentRetries ==
    [][ (last'.op = "_process_email" /\ ops' = ops + 1) =>
          LET ret == last'.ret
              parts == FullMessage(ret.gmail_id).parts
              first(o) == IF \E k \in 1..3 : o[k]
                          THEN CHOOSE k \in 1..3 : o[k] /\ \A j \in 1..(k - 1) : ~o[j]
                          ELSE 3
          IN  /\ \E e \in emails' : /\ e.id = ret.id
                                    /\ e.gmail_id = ret.gmail_id
                                    /\ e.body = FullMessage(ret.gmail_id).body
              /\ \A i \in 1..Len(parts) :
                    /\ ret.got[i].calls <= 3
                    /\ ret.got[i].calls = first(ret.outcomes[i])
                    /\ ret.got[i].sleeps = ret.got[i].calls - 1
                    /\ IF \E k \in 1..3 : ret.outcomes[i][k]
                       THEN \E a \in attachments' :
                               /\ a.email_id = ret.id
                               /\ a.filename = parts[i].filename
                               /\ a.content = parts[i].data
                               /\ a.size = blob_len(parts[i].data)
                       ELSE \E a \in attachments' :
                               /\ a.email_id = ret.id
                               /\ a.filename = parts[i].filename
                               /\ a.size = 0
                               /\ a.content = NONE
                               /\ a.content_preview = "Failed to fetch attachment content"
      ]_vars

\* A message whose first attachment failed three times and whose second one
\* came on the third call has been stored with the placeholder and the blob.
C25_Witness ==
    /\ last.op = "_process_email"
    /\ last.ret.gmail_id = "g5"
    /\ last.ret.got[1].calls = 3 /\ ~last.ret.got[1].ok
    /\ last.ret.got[2].calls = 3 /\ last.ret.got[2].ok
    /\ \E a, b \in attachments :
          /\ a.email_id = last.email_id /\ a.content = NONE /\ a.size = 0
          /\ b.email_id = last.email_id /\ b.content = "yy"

\* C26: under every interleaving of the two callers there is one store
\* instance, shared by both; an upsert_email that has returned gave the id of
\* the row with its own gmail_id, and a get_sync_metadata that has returned
\* gave the value its own key had when it was read.
C26_ThreadSafeSingleton ==
    /\ conn.created <= 1
    /\ \A p \in Procs : obs[p].db \in {0, conn.instance}
    /\ last.op = "upsert_email" =>
          /\ last.ret.kind = "id"
          /\ \E e \in emails : e.gmail_id = last.key /\ e.id = last.ret.id
    /\ last.op = "get_sync_metadata" =>
          /\ last.ret.kind = "value"
          /\ last.ret.value = last.ret.at_select

C29_BatchReachesEveryMessage ==
    [][ ( /\ last'.op = "batch_summarize_emails"
          /\ ops' = ops + 1
          /\ last'.ret.results = <<>> )
        => \A e \in emails' :
              \E r \in email_summaries' :
                  r.email_id = e.id /\ r.summary_type = last'.key ]_vars

====
